---- MODULE Spec2Model ----
(***************************************************************************)
(* Model of the blog of niche-pinner: the Markdown-to-post pipeline of     *)
(* src/blog/BlogUtils.ts (slug, front matter, content processing, featured *)
(* image, getAllPosts, getPostBySlug) and the BlogList / BlogPost          *)
(* components of src/blog/BlogCore.tsx (load, search filter, pagination).  *)
(*                                                                         *)
(* A JavaScript string is a sequence of one-character strings; the string  *)
(* functions and the regular expressions of the source are operators on    *)
(* such sequences that compute what the JavaScript computes.               *)
(***************************************************************************)
EXTENDS Integers, Sequences, FiniteSets, TLC

VARIABLES
  text,          \* SpecSlug: the argument of createSlug
  slug1,         \* SpecSlug: createSlug(text), or Null before the call
  slug2,         \* SpecSlug: createSlug(createSlug(text)), or Null
  bundle,        \* the raw content files of import.meta.glob, in bundle order
  loadFails,     \* whether processing the content files throws
  called,        \* SpecPosts: whether getAllPosts has been called
  fetched,       \* SpecPosts: what getAllPosts resolved to
  location,      \* the router's location: pathname, :slug, ?search= and ?page=
  posts,         \* BlogList state
  filteredPosts, \* BlogList state
  loading,       \* BlogList state
  error,         \* BlogList state (Null for null)
  currentPage,   \* BlogList state
  post,          \* BlogPost state: <<>> for null, else the sequence of the one post
  postLoading,   \* BlogPost state `loading`
  postError,     \* BlogPost state `error`
  effects,       \* the effects of the mounted component that are yet to run
  request,       \* the promise of the mounted component: idle, pending or settled
  address,       \* SpecRoutes: the pathname the application is opened at
  routed,        \* SpecRoutes: the element <Routes> renders for it, and its :slug
  markdownFiles, \* SpecSitemap: the .md files of blog-content, in directory order
  sitemapXml,    \* SpecSitemap: public/sitemap.xml, its root element and the items
  sitemapDir,    \* SpecSitemap: the files of public/sitemaps, by name
  robotsTxt,     \* SpecSitemap: public/robots.txt, Null while there is none
  pagination,    \* SpecPagination: the props of Pagination and what it renders
  related        \* SpecRelated: the prop and the state of RelatedBlogPosts

slugVars == <<text, slug1, slug2>>
postsVars == <<called, fetched>>
listVars == <<posts, filteredPosts, loading, error, currentPage>>
postVars == <<post, postLoading, postError>>
routerVars == <<address, routed>>
sitemapVars == <<markdownFiles, sitemapXml, sitemapDir, robotsTxt>>
widgetVars == <<pagination, related>>
vars == <<slugVars, bundle, loadFails, postsVars, location, listVars, postVars,
          effects, request, routerVars, sitemapVars, widgetVars>>

(***************************************************************************)
(* Values                                                                  *)
(***************************************************************************)
\* JavaScript null where a string is expected: no string is this sequence,
\* since every element of a string is a single character.
Null == <<"null">>

NL == "\n"
\* the backtick character, which a TLA+ string cannot hold
Backtick == "BACKTICK"

LowerSeq == <<"a","b","c","d","e","f","g","h","i","j","k","l","m",
              "n","o","p","q","r","s","t","u","v","w","x","y","z">>
UpperSeq == <<"A","B","C","D","E","F","G","H","I","J","K","L","M",
              "N","O","P","Q","R","S","T","U","V","W","X","Y","Z">>
Lower == {LowerSeq[i] : i \in 1..26}
Upper == {UpperSeq[i] : i \in 1..26}
Digit == {"0","1","2","3","4","5","6","7","8","9"}
\* \s of a JavaScript regular expression, and what String.prototype.trim strips
WhiteSpace == {" ", NL, "\t", "\r"}
\* \w of a JavaScript regular expression
WordChar == Lower \cup Upper \cup Digit \cup {"_"}

LowerOf == [c \in Upper |-> LowerSeq[CHOOSE i \in 1..26 : UpperSeq[i] = c]]

(***************************************************************************)
(* String functions of JavaScript                                          *)
(***************************************************************************)
Min(set) == CHOOSE x \in set : \A y \in set : x <= y
Max(set) == CHOOSE x \in set : \A y \in set : x >= y

\* what `.` of a JavaScript regular expression does not match
LineTerminators == {NL, "\r"}
\* the first position from i on whose character is not in `class` (Len(s) + 1
\* when there is none): the end of a greedy class* that starts at i
RunEnd(s, i, class) ==
  LET stop == {k \in i..Len(s) : s[k] \notin class}
  IN  IF stop = {} THEN Len(s) + 1 ELSE Min(stop)

\* the first position from i on whose character is in `class`, Len(s) + 1 when none
FirstOf(s, i, class) ==
  LET hit == {k \in i..Len(s) : s[k] \in class}
  IN  IF hit = {} THEN Len(s) + 1 ELSE Min(hit)

RECURSIVE Concat(_)
\* the concatenation of a sequence of strings
Concat(ss) == IF ss = <<>> THEN <<>> ELSE Head(ss) \o Concat(Tail(ss))

\* String.prototype.toLowerCase
toLowerCase(s) == [i \in 1..Len(s) |-> IF s[i] \in Upper THEN LowerOf[s[i]] ELSE s[i]]

\* s.substring(from - 1), 1-based here
From(s, i) == SubSeq(s, i, Len(s))

\* p occurs in s at (1-based) position i
OccursAt(s, p, i) ==
  /\ i >= 1
  /\ i + Len(p) - 1 <= Len(s)
  /\ \A k \in 1..Len(p) : s[i + k - 1] = p[k]

\* String.prototype.indexOf(p, from), 1-based; 0 when p does not occur
IndexFrom(s, p, from) ==
  LET hits == {i \in from..(Len(s) - Len(p) + 1) : OccursAt(s, p, i)}
  IN  IF hits = {} THEN 0 ELSE CHOOSE i \in hits : \A j \in hits : i <= j

\* String.prototype.includes
includes(s, p) == \E i \in 1..(Len(s) - Len(p) + 1) : OccursAt(s, p, i)

\* String.prototype.startsWith
startsWith(s, p) == OccursAt(s, p, 1)

\* String.prototype.trim
trim(s) ==
  LET keep == {i \in 1..Len(s) : s[i] \notin WhiteSpace}
  IN  IF keep = {} THEN <<>>
      ELSE SubSeq(s, CHOOSE i \in keep : \A j \in keep : i <= j,
                     CHOOSE i \in keep : \A j \in keep : i >= j)

RECURSIVE split(_, _)
\* String.prototype.split(sep) for a one-character separator: a sequence of strings
split(s, sep) ==
  LET i == IndexFrom(s, <<sep>>, 1)
  IN  IF i = 0 THEN <<s>>
      ELSE <<SubSeq(s, 1, i - 1)>> \o split(From(s, i + 1), sep)

RECURSIVE join(_, _)
\* Array.prototype.join(sep)
join(parts, sep) ==
  IF parts = <<>> THEN <<>>
  ELSE IF Len(parts) = 1 THEN parts[1]
  ELSE parts[1] \o sep \o join(Tail(parts), sep)

(***************************************************************************)
(* createSlug: slugify(text, {lower, strict, trim, replacement: '-'})      *)
(***************************************************************************)
\* The entries of slugify's charMap for the ASCII characters
charMap(ch) ==
  CASE ch = "$" -> <<"d","o","l","l","a","r">>
    [] ch = "%" -> <<"p","e","r","c","e","n","t">>
    [] ch = "&" -> <<"a","n","d">>
    [] ch = "<" -> <<"l","e","s","s">>
    [] ch = ">" -> <<"g","r","e","a","t","e","r">>
    [] ch = "|" -> <<"o","r">>
    [] OTHER    -> <<ch>>

\* slugify's default `remove` pattern /[^\w\s$*_+~.()'"!\-:@]+/g keeps these
slugifyKept == WordChar \cup WhiteSpace \cup
               {"$","*","_","+","~",".","(",")","'","\"","!","-",":","@"}

\* One step of slugify's reduce over the characters: the charMap entry (the
\* replacement character itself becomes a space), less the removed characters
slugifyCharNoSpace(ch) == SelectSeq(charMap(ch), LAMBDA c : c \in slugifyKept)
slugifyChar(ch) ==
  LET appendChar == IF charMap(ch) = <<"-">> THEN <<" ">> ELSE charMap(ch)
  IN  SelectSeq(appendChar, LAMBDA c : c \in slugifyKept)

\* strict: slug.replace(/[^A-Za-z0-9\s]/g, '')
slugifyStrict(s) ==
  SelectSeq(s, LAMBDA c : c \in Lower \cup Upper \cup Digit \cup WhiteSpace)

RECURSIVE replaceRuns(_, _, _)
\* s.replace(/[class]+/g, replacement)
replaceRuns(s, class, replacement) ==
  LET i == FirstOf(s, 1, class)
  IN  IF i > Len(s) THEN s
      ELSE SubSeq(s, 1, i - 1) \o replacement
             \o replaceRuns(From(s, RunEnd(s, i, class)), class, replacement)

\* slug.replace(/\s+/g, replacement) after the strict filter and the trim, then
\* toLowerCase
slugifyNoLower(s) ==
  replaceRuns(trim(slugifyStrict(Concat([i \in 1..Len(s) |-> slugifyChar(s[i])]))),
              WhiteSpace, <<"-">>)
slugify(s) ==
  toLowerCase(replaceRuns(trim(slugifyStrict(
      Concat([i \in 1..Len(s) |-> slugifyChar(s[i])]))), WhiteSpace, <<"-">>))

createSlug(t) == slugify(t)

(***************************************************************************)
(* extractFrontMatter (BlogUtils.ts)                                       *)
(***************************************************************************)
\* JavaScript undefined: the value of a property an object does not have
Undefined == <<"undefined">>

\* what `v || fallback` and `if (v)` take as true, for v a string, null or undefined
Truthy(v) == v # Null /\ v # Undefined /\ v # <<>>

Delim == <<"-", "-", "-">>
\* "---\n", the opening of the front matter
OpenDelim == Delim \o <<NL>>
\* "\n---\n", the closing of the front matter
CloseDelim == <<NL>> \o Delim \o <<NL>>

\* The position of the closing "\n---\n" that /^---\n([\s\S]*?)\n---\n([\s\S]*)$/
\* matches (the first one at or after the end of "---\n"), 0 when it does not match
frontMatterClose(content) ==
  IF startsWith(content, OpenDelim)
  THEN IndexFrom(content, CloseDelim, Len(OpenDelim) + 1)
  ELSE 0

RECURSIVE parseFrontMatter(_, _)
\* frontMatterStr.split('\n').forEach(line => ...): the entries set so far, in
\* order; an entry is <<key, value>> and a later entry of a key overrides
parseFrontMatter(lines, entries) ==
  IF lines = <<>> THEN entries
  ELSE LET parts == split(Head(lines), ":")
           key == parts[1]
           valueParts == Tail(parts)
       IN  parseFrontMatter(Tail(lines),
             IF key # <<>> /\ Len(valueParts) > 0
             THEN Append(entries, <<trim(key), trim(join(valueParts, <<":">>))>>)
             ELSE entries)

\* frontMatter[key] if the first assignment to a key were the one kept
fmGetFirst(frontMatter, key) ==
  LET at == {i \in 1..Len(frontMatter) : frontMatter[i][1] = key}
  IN  IF at = {} THEN Undefined
      ELSE frontMatter[CHOOSE i \in at : \A j \in at : i <= j][2]

\* frontMatter[key]: the value last assigned to the key, else undefined
fmGet(frontMatter, key) ==
  LET at == {i \in 1..Len(frontMatter) : frontMatter[i][1] = key}
  IN  IF at = {} THEN Undefined
      ELSE frontMatter[CHOOSE i \in at : \A j \in at : i >= j][2]

extractFrontMatter(content) ==
  LET close == frontMatterClose(content)
  IN  IF close = 0
      THEN [frontMatter |-> <<>>, content |-> content]
      ELSE [frontMatter |->
              parseFrontMatter(
                split(SubSeq(content, Len(OpenDelim) + 1, close - 1), NL), <<>>),
            content |-> From(content, close + Len(CloseDelim))]

(***************************************************************************)
(* processMarkdownContent (BlogUtils.ts)                                   *)
(***************************************************************************)
\* [.!?]
Terminators == {".", "!", "?"}
\* [a-zA-Z0-9_-]
IdChars == Lower \cup Upper \cup Digit \cup {"_", "-"}

\* p (in lower case) occurs in s at position i, letter case ignored (the i flag)
OccursAtCI(s, p, i) ==
  /\ i >= 1
  /\ i + Len(p) - 1 <= Len(s)
  /\ \A k \in 1..Len(p) :
       (IF s[i + k - 1] \in Upper THEN LowerOf[s[i + k - 1]] ELSE s[i + k - 1]) = p[k]

Http == <<"h","t","t","p",":","/","/">>
Https == <<"h","t","t","p","s",":","/","/">>
Www == <<"w","w","w",".">>
YoutubeWatch == <<"y","o","u","t","u","b","e",".","c","o","m","/","w","a","t","c","h","?","v","=">>
YoutuBe == <<"y","o","u","t","u",".","b","e","/">>
\* https?:\/\/(?:www\.)?youtube\.com\/watch\?v=|https?:\/\/youtu\.be\/
YoutubeUrlPrefixes ==
  {scheme \o host : scheme \in {Http, Https},
                    host \in {Www \o YoutubeWatch, YoutubeWatch, YoutuBe}}

\* the length of the YouTube URL prefix at position u of s, 0 when there is none
youtubePrefixLen(s, u) ==
  LET at == {p \in YoutubeUrlPrefixes : OccursAt(s, p, u)}
  IN  IF at = {} THEN 0 ELSE Len(CHOOSE p \in at : TRUE)

\* the position after the video id ([a-zA-Z0-9_-]+, greedy) of the URL at u
youtubeIdEnd(s, u) == RunEnd(s, u + youtubePrefixLen(s, u), IdChars)

\* prefix and a non-empty video id at position u
isYoutubeUrl(s, u) ==
  /\ youtubePrefixLen(s, u) > 0
  /\ youtubeIdEnd(s, u) > u + youtubePrefixLen(s, u)

youtubeId(s, u) == SubSeq(s, u + youtubePrefixLen(s, u), youtubeIdEnd(s, u) - 1)

\* the position after (?:&[^<\s]*)? taken greedily at q
ampEnd(s, q) ==
  IF q <= Len(s) /\ s[q] = "&"
  THEN FirstOf(s, q + 1, WhiteSpace \cup {"<"})
  ELSE q

\* `\n\nyoutube:${id}\n\n`
YoutubeEmbedTag == <<"y","o","u","t","u","b","e",":">>
youtubeEmbed(id) == <<NL, NL>> \o YoutubeEmbedTag \o id \o <<NL, NL>>

RECURSIVE embedSentenceUrls(_, _)
\* content.replace(/([^.!?]*(?:<prefix>)([a-zA-Z0-9_-]+)(?:&[^<\s]*)?[^.!?]*[.!?])/g, ...)
\* from position `from` on.  A match takes the first URL from there on, with
\* the text before it back to the last sentence end, and runs to the first
\* [.!?] after the URL and its greedy &-parameters; when no [.!?] follows
\* those, the &-parameters give back as far as their own last [.!?].  The
\* callback replaces the URL, with the &-parameters that lie in the match,
\* by the embed.
embedSentenceUrls(s, from) ==
  LET urls == {u \in from..Len(s) : isYoutubeUrl(s, u)}
  IN  IF urls = {} THEN From(s, from)
      ELSE
        LET u == Min(urls)
            q == youtubeIdEnd(s, u)
            a == ampEnd(s, q)
            after == {t \in a..Len(s) : s[t] \in Terminators}
            within == {t \in q..(a - 1) : s[t] \in Terminators}
            e == IF after # {} THEN Min(after)
                 ELSE IF within # {} THEN Max(within) ELSE 0
            replaced == IF a <= e THEN a ELSE e + 1
        IN  IF e = 0 THEN From(s, from)
            ELSE SubSeq(s, from, u - 1) \o youtubeEmbed(youtubeId(s, u))
                   \o SubSeq(s, replaced, e) \o embedSentenceUrls(s, e + 1)

\* the last position of the match of
\* <prefix>([a-zA-Z0-9_-]+)(?:&[^<\s]*)?(?:\s|$) at u, 0 when it does not match
standaloneUrlEnd(s, u) ==
  IF ~isYoutubeUrl(s, u) THEN 0
  ELSE LET a == ampEnd(s, youtubeIdEnd(s, u))
       IN  IF a = Len(s) + 1 THEN Len(s)
           ELSE IF s[a] \in WhiteSpace THEN a ELSE 0

RECURSIVE embedStandaloneUrls(_, _)
\* content.replace(/(?:^|\s)(<prefix>)([a-zA-Z0-9_-]+)(?:&[^<\s]*)?(?:\s|$)/g, ...)
\* from position `from` on: the callback replaces prefix and id by the embed
embedStandaloneUrls(s, from) ==
  LET starts == {m \in from..Len(s) :
                   \/ m = 1 /\ standaloneUrlEnd(s, 1) # 0
                   \/ s[m] \in WhiteSpace /\ standaloneUrlEnd(s, m + 1) # 0}
  IN  IF starts = {} THEN From(s, from)
      ELSE
        LET m == Min(starts)
            u == IF m = 1 /\ standaloneUrlEnd(s, 1) # 0 THEN 1 ELSE m + 1
            e == standaloneUrlEnd(s, u)
        IN  SubSeq(s, from, u - 1) \o youtubeEmbed(youtubeId(s, u))
              \o SubSeq(s, youtubeIdEnd(s, u), e) \o embedStandaloneUrls(s, e + 1)

ImageOpen == <<"!","[">>
AltClose == <<"]","(">>

\* The match of <open>.*?\]\((.{minUrl,}?)\) that starts at position i, for
\* <open> = "![" or "[": <<position of "](", position of the closing ")">>,
\* <<0, 0>> when none.  Text and URL are lazy and do not cross a line end.
bracketLinkAt(s, i, open, minUrl) ==
  IF ~OccursAt(s, open, i) THEN <<0, 0>>
  ELSE
    LET lineEnd == FirstOf(s, i + Len(open), LineTerminators)
        closes(p) == {c \in (p + 2 + minUrl)..(lineEnd - 1) : s[c] = ")"}
        mids == {p \in (i + Len(open))..(lineEnd - 1) :
                   OccursAt(s, AltClose, p) /\ closes(p) # {}}
    IN  IF mids = {} THEN <<0, 0>>
        ELSE <<Min(mids), Min(closes(Min(mids)))>>

markdownImageAt(s, i, minUrl) == bracketLinkAt(s, i, ImageOpen, minUrl)

\* the first position from `from` on where a markdown image matches, 0 when none
firstMarkdownImage(s, from, minUrl) ==
  LET at == {i \in from..Len(s) : markdownImageAt(s, i, minUrl)[1] # 0}
  IN  IF at = {} THEN 0 ELSE Min(at)

\* url.replace(/^\.?\/?/, '') unless the url starts with 'http'
cleanImageUrl(url) ==
  IF startsWith(url, <<"h","t","t","p">>) THEN url
  ELSE LET a == IF url[1] = "." THEN 2 ELSE 1
           b == IF a <= Len(url) /\ url[a] = "/" THEN a + 1 ELSE a
       IN  From(url, b)

RECURSIVE fixImageUrls(_, _)
\* content.replace(/(!\[.*?\]\()(.+?)(\))/g, ...) from position `from` on
fixImageUrls(s, from) ==
  LET i == firstMarkdownImage(s, from, 1)
  IN  IF i = 0 THEN From(s, from)
      ELSE LET m == markdownImageAt(s, i, 1)
           IN  SubSeq(s, from, m[1] + 1)
                 \o cleanImageUrl(SubSeq(s, m[1] + 2, m[2] - 1))
                 \o <<")">> \o fixImageUrls(s, m[2] + 1)

\* (jpg|jpeg|png|gif|webp), in the order the alternatives are tried
ImageExtensions == <<<<"j","p","g">>, <<"j","p","e","g">>, <<"p","n","g">>, <<"g","i","f">>, <<"w","e","b","p">>>>

\* The position after the match of https?:\/\/.*?\.(jpg|jpeg|png|gif|webp) at u
\* (letter case ignored), followed by (\s|$) when `bounded`; 0 when none.
\* The lazy .*? stops at the first dot where an extension, tried in order, fits.
imageUrlEnd(s, u, bounded) ==
  LET b == IF OccursAtCI(s, Https, u) THEN u + Len(Https)
           ELSE IF OccursAtCI(s, Http, u) THEN u + Len(Http) ELSE 0
      lineEnd == FirstOf(s, b, LineTerminators)
      fits(d, x) ==
        /\ OccursAtCI(s, ImageExtensions[x], d + 1)
        /\ d + Len(ImageExtensions[x]) < lineEnd
        /\ bounded =>
             LET z == d + 1 + Len(ImageExtensions[x])
             IN  z = Len(s) + 1 \/ s[z] \in WhiteSpace
      dots == {d \in b..(lineEnd - 1) :
                 s[d] = "." /\ \E x \in 1..Len(ImageExtensions) : fits(d, x)}
  IN  IF b = 0 \/ dots = {} THEN 0
      ELSE LET d == Min(dots)
               x == Min({y \in 1..Len(ImageExtensions) : fits(d, y)})
           IN  d + 1 + Len(ImageExtensions[x])

MarkdownImagePrefix == <<"!","[","I","m","a","g","e","]","(">>

\* Where the URL starts when the match of (^|\n|\s)(https?:\/\/...)(\s|\n|$)
\* starts at m, 0 when there is no match at m
imageUrlStart(s, m) ==
  IF m = 1 /\ imageUrlEnd(s, 1, TRUE) # 0 THEN 1
  ELSE IF s[m] \in WhiteSpace /\ imageUrlEnd(s, m + 1, TRUE) # 0 THEN m + 1
  ELSE 0

RECURSIVE linkImageUrls(_, _)
\* The callback of the replace, for the match from m whose URL is s[u..z-1]: a
\* match that holds neither "](" nor "![" becomes ![Image](url); then the rest
replaceImageUrl(s, from, m, u, z) ==
  LET e == IF z > Len(s) THEN Len(s) ELSE z
      match == SubSeq(s, m, e)
      url == SubSeq(s, u, z - 1)
  IN  SubSeq(s, from, u - 1)
        \o (IF includes(match, AltClose) \/ includes(match, ImageOpen)
            THEN url
            ELSE MarkdownImagePrefix \o url \o <<")">>)
        \o SubSeq(s, z, e) \o linkImageUrls(s, e + 1)

\* the match from m, whose URL starts at u
replaceImageUrlFrom(s, from, m, u) == replaceImageUrl(s, from, m, u, imageUrlEnd(s, u, TRUE))

\* content.replace(/(^|\n|\s)(https?:\/\/.*?\.(jpg|jpeg|png|gif|webp))(\s|\n|$)/gi, ...)
\* from position `from` on
linkImageUrls(s, from) ==
  LET starts == {m \in from..Len(s) : imageUrlStart(s, m) # 0}
  IN  IF starts = {} THEN From(s, from)
      ELSE replaceImageUrlFrom(s, from, Min(starts), imageUrlStart(s, Min(starts)))

processMarkdownContent(content) ==
  linkImageUrls(fixImageUrls(embedStandaloneUrls(embedSentenceUrls(content, 1), 1), 1), 1)

(***************************************************************************)
(* extractFirstImage, extractVideoId, extractTitleFromMarkdown             *)
(***************************************************************************)
ImgTag == <<"<","i","m","g">>
SrcAttr == <<"s","r","c","=">>
Quotes == {"\"", "'"}

\* The match of <img.*?src=["'](.*?)["'] that starts at position i:
\* <<position of src=, position of the closing quote>>, <<0, 0>> when none
imgTagAt(s, i) ==
  IF ~OccursAt(s, ImgTag, i) THEN <<0, 0>>
  ELSE
    LET lineEnd == FirstOf(s, i + Len(ImgTag), LineTerminators)
        closes(p) == {c \in (p + Len(SrcAttr) + 1)..(lineEnd - 1) : s[c] \in Quotes}
        srcs == {p \in (i + Len(ImgTag))..(lineEnd - 1) :
                   /\ OccursAt(s, SrcAttr, p)
                   /\ p + Len(SrcAttr) <= Len(s)
                   /\ s[p + Len(SrcAttr)] \in Quotes
                   /\ closes(p) # {}}
    IN  IF srcs = {} THEN <<0, 0>>
        ELSE <<Min(srcs), Min(closes(Min(srcs)))>>

\* content.match(/!\[.*?\]\((.*?)\)/): group 1 of the first match, Null when
\* nothing matches
markdownImageUrl(content) ==
  LET i == firstMarkdownImage(content, 1, 0)
      m == markdownImageAt(content, i, 0)
  IN  IF i = 0 THEN Null ELSE SubSeq(content, m[1] + 2, m[2] - 1)

\* content.match(/(https?:\/\/.*?\.(jpg|jpeg|png|gif|webp))/i)
directImageUrl(content) ==
  LET at == {u \in 1..Len(content) : imageUrlEnd(content, u, FALSE) # 0}
  IN  IF at = {} THEN Null
      ELSE SubSeq(content, Min(at), imageUrlEnd(content, Min(at), FALSE) - 1)

\* content.match(/<img.*?src=["'](.*?)["']/)
htmlImageUrl(content) ==
  LET at == {i \in 1..Len(content) : imgTagAt(content, i)[1] # 0}
      m == imgTagAt(content, Min(at))
  IN  IF at = {} THEN Null
      ELSE SubSeq(content, m[1] + Len(SrcAttr) + 1, m[2] - 1)

extractFirstImage(content) ==
  IF Truthy(markdownImageUrl(content)) THEN markdownImageUrl(content)
  ELSE IF Truthy(directImageUrl(content)) THEN directImageUrl(content)
  ELSE IF Truthy(htmlImageUrl(content)) THEN htmlImageUrl(content)
  ELSE Null

\* `https://img.youtube.com/vi/${videoId}/maxresdefault.jpg`
getYoutubeThumbnailUrl(videoId) ==
  <<"h","t","t","p","s",":","/","/","i","m","g",".","y","o","u","t","u","b","e",".","c","o","m","/","v","i","/">> \o videoId \o <<"/","m","a","x","r","e","s","d","e","f","a","u","l","t",".","j","p","g">>

YoutubeCom == <<"y","o","u","t","u","b","e",".","c","o","m","/">>
YoutuBeHost == <<"y","o","u","t","u",".","b","e","/">>
VParam == <<"v","=">>
EmbedPaths == <<<<"v","/">>, <<"e","/">>, <<"e","m","b","e","d","/">>>>
\* [^"&?\/\s]
NotVideoIdChar == {"\"", "&", "?", "/"} \cup WhiteSpace
VideoIdLen == 11

\* ([^"&?\/\s]{11}) matches at position i
videoIdAt(s, i) ==
  /\ i + VideoIdLen - 1 <= Len(s)
  /\ \A k \in i..(i + VideoIdLen - 1) : s[k] \notin NotVideoIdChar

\* The position of the video id that
\* (?:youtube\.com\/(?:[^\/]+\/.+\/|(?:v|e(?:mbed)?)\/|.*[?&]v=)|youtu\.be\/)([^"&?\/\s]{11})
\* (letter case ignored) finds when it starts at position i; 0 when it does not match.
\* The alternatives are tried in order, the greedy .+ and .* longest first.
rawVideoIdAt(s, i) ==
  IF OccursAtCI(s, YoutubeCom, i)
  THEN
    LET j == i + Len(YoutubeCom)
        lineEnd == FirstOf(s, j, LineTerminators)
        f == FirstOf(s, j, {"/"})
        paths == {g \in (f + 2)..Len(s) :
                    /\ f > j
                    /\ s[g] = "/"
                    /\ \A k \in (f + 1)..(g - 1) : s[k] \notin LineTerminators
                    /\ videoIdAt(s, g + 1)}
        embeds == {x \in 1..Len(EmbedPaths) :
                     /\ OccursAtCI(s, EmbedPaths[x], j)
                     /\ videoIdAt(s, j + Len(EmbedPaths[x]))}
        params == {h \in j..(lineEnd - 1) :
                     /\ s[h] \in {"?", "&"}
                     /\ OccursAtCI(s, VParam, h + 1)
                     /\ videoIdAt(s, h + 1 + Len(VParam))}
    IN  IF paths # {} THEN Max(paths) + 1
        ELSE IF embeds # {} THEN j + Len(EmbedPaths[Min(embeds)])
        ELSE IF params # {} THEN Max(params) + 1 + Len(VParam)
        ELSE 0
  ELSE IF OccursAtCI(s, YoutuBeHost, i) /\ videoIdAt(s, i + Len(YoutuBeHost))
  THEN i + Len(YoutuBeHost)
  ELSE 0

\* content.match(/youtube:([a-zA-Z0-9_-]{11})/): the position of the id, 0 when none
embedVideoIdAt(s, i) ==
  IF /\ OccursAt(s, YoutubeEmbedTag, i)
     /\ i + Len(YoutubeEmbedTag) + VideoIdLen - 1 <= Len(s)
     /\ \A k \in (i + Len(YoutubeEmbedTag))..(i + Len(YoutubeEmbedTag) + VideoIdLen - 1) :
          s[k] \in IdChars
  THEN i + Len(YoutubeEmbedTag)
  ELSE 0

\* group 1 of the first match of a pattern, given where the pattern finds the id
\* when it starts at a position
firstVideoId(content, idAt(_, _)) ==
  LET at == {i \in 1..Len(content) : idAt(content, i) # 0}
      p == idAt(content, Min(at))
  IN  IF at = {} THEN Null ELSE SubSeq(content, p, p + VideoIdLen - 1)

extractVideoId(content) ==
  IF firstVideoId(content, rawVideoIdAt) = Null
  THEN firstVideoId(content, embedVideoIdAt)
  ELSE firstVideoId(content, rawVideoIdAt)

UntitledPost == <<"U","n","t","i","t","l","e","d"," ","P","o","s","t">>

\* Where group 1 of /^#\s+(.+)$/m starts when the match starts at position i,
\* 0 when it does not match there: # at a line start, white space (greedy, it
\* may cross lines), then the rest of a line, at least one character
headingTextAt(s, i) ==
  IF /\ i <= Len(s) /\ s[i] = "#"
     /\ (i = 1 \/ s[i - 1] \in LineTerminators)
     /\ i + 1 <= Len(s) /\ s[i + 1] \in WhiteSpace
  THEN LET w == RunEnd(s, i + 1, WhiteSpace)
           back == {k \in (i + 2)..Len(s) : k <= w /\ s[k] \notin LineTerminators}
       IN  IF back = {} THEN 0 ELSE Max(back)
  ELSE 0

extractTitleFromMarkdown(content) ==
  LET at == {i \in 1..Len(content) : headingTextAt(content, i) # 0}
      k == headingTextAt(content, Min(at))
  IN  IF at = {} THEN UntitledPost
      ELSE trim(SubSeq(content, k, FirstOf(content, k, LineTerminators) - 1))

(***************************************************************************)
(* generateMetaDescription (config/blog.config.ts)                         *)
(***************************************************************************)
MetaDescriptionLength == 160

RECURSIVE replaceLinks(_, _, _, _)
\* s.replace(/<open>.*?\]\(.*?\)/g, replacement) from position `from` on
replaceLinks(s, from, open, replacement) ==
  LET at == {i \in from..Len(s) : bracketLinkAt(s, i, open, 0)[1] # 0}
  IN  IF at = {} THEN From(s, from)
      ELSE SubSeq(s, from, Min(at) - 1) \o replacement
             \o replaceLinks(s, bracketLinkAt(s, Min(at), open, 0)[2] + 1,
                             open, replacement)

RECURSIVE removeTags(_, _)
\* s.replace(/<[^>]*>/g, '') from position `from` on
removeTags(s, from) ==
  LET at == {i \in from..Len(s) : s[i] = "<" /\ FirstOf(s, i, {">"}) <= Len(s)}
  IN  IF at = {} THEN From(s, from)
      ELSE SubSeq(s, from, Min(at) - 1) \o removeTags(s, FirstOf(s, Min(at), {">"}) + 1)

\* String.prototype.lastIndexOf(' '), 1-based; 0 when there is no space
lastIndexOfSpace(s) ==
  LET at == {i \in 1..Len(s) : s[i] = " "}
  IN  IF at = {} THEN 0 ELSE Max(at)

\* The plain text of a content: images removed, each link replaced by the
\* replacement string '$1' (the pattern has no group, so the two characters
\* stand as they are), the characters # * _ ~ and the backtick removed, tags
\* removed, white space collapsed, trimmed
plainText(content) ==
  trim(replaceRuns(replaceRuns(
         removeTags(
           SelectSeq(replaceLinks(replaceLinks(content, 1, ImageOpen, <<>>),
                                  1, <<"[">>, <<"$", "1">>),
                     LAMBDA c : c \notin {"#", "*", "_", "~", Backtick}),
           1),
         {NL}, <<" ">>), WhiteSpace, <<" ">>))

\* plainText.substring(0, 160), then
\* truncated.substring(0, truncated.lastIndexOf(' ')) + '...'
generateMetaDescription(content) ==
  LET plain == plainText(content)
      truncated == SubSeq(plain, 1, IF Len(plain) < MetaDescriptionLength
                                    THEN Len(plain) ELSE MetaDescriptionLength)
  IN  SubSeq(truncated, 1, lastIndexOfSpace(truncated) - 1) \o <<".", ".", ".">>

(***************************************************************************)
(* getAllPosts, getPostBySlug (BlogUtils.ts)                               *)
(***************************************************************************)
\* siteConfig.defaultAuthor
DefaultAuthor == <<"N","i","c","h","e","P","i","n","n","e","r"," ","T","e","a","m">>

TitleKey == <<"t","i","t","l","e">>
SlugKey == <<"s","l","u","g">>
DateKey == <<"d","a","t","e">>
AuthorKey == <<"a","u","t","h","o","r">>
ExcerptKey == <<"e","x","c","e","r","p","t">>

DigitSeq == <<"0","1","2","3","4","5","6","7","8","9">>
DigitValue == [c \in Digit |-> (CHOOSE i \in 1..10 : DigitSeq[i] = c) - 1]

RECURSIVE number(_)
\* the value of a string of digits
number(ds) ==
  IF ds = <<>> THEN 0 ELSE 10 * number(SubSeq(ds, 1, Len(ds) - 1)) + DigitValue[ds[Len(ds)]]

allDigits(s, from, to) == \A k \in from..to : s[k] \in Digit

\* JavaScript NaN, where a time is expected
NaN == <<"NaN">>

daysInMonth(y, m) ==
  IF m = 2 THEN (IF y % 4 = 0 /\ (y % 100 # 0 \/ y % 400 = 0) THEN 29 ELSE 28)
  ELSE IF m \in {4, 6, 9, 11} THEN 30 ELSE 31

\* The days from 0000-03-01 to the civil date
daysFromCivil(y, m, d) ==
  LET yy == IF m <= 2 THEN y - 1 ELSE y
      mm == IF m <= 2 THEN m + 9 ELSE m - 3
  IN  365 * yy + yy \div 4 - yy \div 100 + yy \div 400 + (153 * mm + 2) \div 5 + d - 1

\* new Date(date).getTime() for the two forms getAllPosts meets, YYYY-MM-DD of a
\* front matter and the YYYY-MM-DDTHH:mm:ss.sssZ of toISOString, as <<days,
\* milliseconds of the day>>, which orders as the milliseconds since the epoch do;
\* NaN for a string of another form
getTime(date) ==
  LET dateOk == /\ Len(date) >= 10
                /\ allDigits(date, 1, 4) /\ date[5] = "-"
                /\ allDigits(date, 6, 7) /\ date[8] = "-"
                /\ allDigits(date, 9, 10)
                /\ number(SubSeq(date, 6, 7)) \in 1..12
                /\ number(SubSeq(date, 9, 10)) \in
                     1..daysInMonth(number(SubSeq(date, 1, 4)), number(SubSeq(date, 6, 7)))
      days == daysFromCivil(number(SubSeq(date, 1, 4)), number(SubSeq(date, 6, 7)),
                            number(SubSeq(date, 9, 10)))
      timeOk == /\ Len(date) = 24
                /\ date[11] = "T" /\ allDigits(date, 12, 13) /\ date[14] = ":"
                /\ allDigits(date, 15, 16) /\ date[17] = ":"
                /\ allDigits(date, 18, 19) /\ date[20] = "."
                /\ allDigits(date, 21, 23) /\ date[24] = "Z"
                /\ number(SubSeq(date, 12, 13)) < 24
                /\ number(SubSeq(date, 15, 16)) < 60
                /\ number(SubSeq(date, 18, 19)) < 60
      millis == ((number(SubSeq(date, 12, 13)) * 60 + number(SubSeq(date, 15, 16))) * 60
                  + number(SubSeq(date, 18, 19))) * 1000 + number(SubSeq(date, 21, 23))
  IN  IF ~dateOk THEN NaN
      ELSE IF Len(date) = 10 THEN <<days, 0>>
      ELSE IF timeOk THEN <<days, millis>>
      ELSE NaN

\* the comparison of a sort that puts the oldest first
compareTimesAscending(ta, tb) ==
  IF ta = NaN \/ tb = NaN THEN 0
  ELSE IF tb[1] # ta[1] THEN ta[1] - tb[1]
  ELSE ta[2] - tb[2]

\* the sign of new Date(b.date).getTime() - new Date(a.date).getTime() as the
\* sort takes it, given the two times: a NaN counts as 0
compareTimes(ta, tb) ==
  IF ta = NaN \/ tb = NaN THEN 0
  ELSE IF tb[1] # ta[1] THEN tb[1] - ta[1]
  ELSE tb[2] - ta[2]

\* A stable insertion of element n into the order `sorted` of the elements before
\* it: n goes after the last element that does not compare greater.  times[i]
\* is the time of element i.
insertInOrder(sorted, times, n) ==
  LET before == {k \in 1..Len(sorted) :
                   compareTimes(times[sorted[k]], times[n]) <= 0}
      at == IF before = {} THEN 0 ELSE Max(before)
  IN  SubSeq(sorted, 1, at) \o <<n>> \o SubSeq(sorted, at + 1, Len(sorted))

RECURSIVE insertAllInOrder(_, _, _, _)
\* the elements from..to inserted one after the other, the first half and then
\* the second (the test of Len(half) makes TLC compute the half first)
insertAllInOrder(sorted, times, from, to) ==
  IF from > to THEN sorted
  ELSE IF from = to THEN insertInOrder(sorted, times, from)
  ELSE LET half == insertAllInOrder(sorted, times, from, (from + to) \div 2)
       IN  IF Len(half) = 0
           THEN insertAllInOrder(<<>>, times, ((from + to) \div 2) + 1, to)
           ELSE insertAllInOrder(half, times, ((from + to) \div 2) + 1, to)

\* The order in which Array.prototype.sort, which is stable, leaves n elements,
\* as a sequence of their indices
sortedOrder(times, n) == insertAllInOrder(<<>>, times, 1, n)

\* posts.sort((a, b) => new Date(b.date).getTime() - new Date(a.date).getTime())
sortPosts(unsorted) ==
  LET times == [i \in 1..Len(unsorted) |-> getTime(unsorted[i].date)] \o <<>>
      order == sortedOrder(times, Len(unsorted))
  IN  [k \in 1..Len(unsorted) |-> unsorted[order[k]]] \o <<>>

\* What the sort can leave, given the posts as a stable sort leaves them: with a
\* date that is no date the comparison is not consistent (it answers 0 for that
\* post against every other) and the order is whatever the engine's algorithm
\* makes of it, so every order of the posts counts
sortOutcomes(sorted) ==
  IF \A i \in 1..Len(sorted) : getTime(sorted[i].date) # NaN THEN {sorted}
  ELSE {[k \in 1..Len(sorted) |-> sorted[p[k]]] \o <<>> :
          p \in Permutations(1..Len(sorted))}

\* `value || fallback`, without the precedence of the value
orFallback(value, fallback) == fallback
\* `value || fallback`
orElse(value, fallback) == IF Truthy(value) THEN value ELSE fallback

\* The featured image, with the video thumbnail preferred to the image
featuredImageThumbnailFirst(image, videoId) ==
  IF Truthy(videoId) THEN getYoutubeThumbnailUrl(videoId) ELSE image
\* let featuredImage = extractFirstImage(..); if (!featuredImage) { const videoId
\* = extractVideoId(..); if (videoId) featuredImage = getYoutubeThumbnailUrl(videoId) }
featuredImageOf(image, videoId) ==
  IF Truthy(image) THEN image
  ELSE IF Truthy(videoId) THEN getYoutubeThumbnailUrl(videoId)
  ELSE image

\* The post returned by the callback of map(), given the front matter and the
\* processed content
postOfContent(frontMatter, processedContent, now) ==
  [title |-> orElse(fmGet(frontMatter, TitleKey),
                    extractTitleFromMarkdown(processedContent)),
   slug |-> IF Truthy(fmGet(frontMatter, SlugKey))
            THEN createSlug(fmGet(frontMatter, SlugKey))
            ELSE createSlug(orElse(fmGet(frontMatter, TitleKey),
                                   extractTitleFromMarkdown(processedContent))),
   date |-> orElse(fmGet(frontMatter, DateKey), now),
   content |-> processedContent,
   excerpt |-> orElse(fmGet(frontMatter, ExcerptKey),
                      generateMetaDescription(processedContent)),
   author |-> orElse(fmGet(frontMatter, AuthorKey), DefaultAuthor),
   featuredImage |-> featuredImageOf(extractFirstImage(processedContent),
                                     extractVideoId(processedContent))]

\* const processedContent = processMarkdownContent(markdown)
postOfParsed(parsed, now) ==
  postOfContent(parsed.frontMatter, processMarkdownContent(parsed.content), now)

\* The post built from one content file by the callback of map(); `now` is what
\* new Date().toISOString() gives at that moment.
buildPost(file, now) == postOfParsed(extractFrontMatter(file), now)

\* getAllPosts: the posts of the bundled content files, newest first (\o <<>>
\* makes TLC build the array once instead of at each use); clock[i] is
\* the time at which file i is processed.  When the processing throws, the catch
\* logs the error and returns [].
getAllPosts(files, clock, throws) ==
  IF throws THEN <<>>
  ELSE sortPosts([i \in 1..Len(files) |-> buildPost(files[i], clock[i])] \o <<>>)

\* How the promise of getAllPosts() settles: the body of the async function is
\* one try/catch whose catch returns, so the promise is never rejected
getAllPostsSettled(files, clock, throws) ==
  [rejected |-> FALSE, value |-> getAllPosts(files, clock, throws)]

\* the first post, whatever its slug
getPostBySlugFirst(allPosts, slugParam) ==
  IF allPosts = <<>> THEN <<>> ELSE <<allPosts[1]>>
\* the last post of the slug instead of the first
getPostBySlugLast(allPosts, slugParam) ==
  LET at == {i \in 1..Len(allPosts) : allPosts[i].slug = slugParam}
  IN  IF at = {} THEN <<>> ELSE <<allPosts[Max(at)]>>
\* allPosts.find(post => post.slug === slug) || null: the sequence of the one post
\* found, or the empty sequence for null
getPostBySlug(allPosts, slugParam) ==
  LET at == {i \in 1..Len(allPosts) : allPosts[i].slug = slugParam}
  IN  IF at = {} THEN <<>> ELSE <<allPosts[Min(at)]>>

(***************************************************************************)
(* The URL of the blog list (SearchBar, useSearchParams)                   *)
(***************************************************************************)
\* The escapes of encodeURIComponent for the ASCII characters it does not leave as
\* they are (it leaves letters, digits and - _ . ! ~ * ' ( ) )
UriEscapes == <<
  <<" ", <<"%","2","0">> >>, <<"%", <<"%","2","5">> >>, <<"&", <<"%","2","6">> >>,
  <<"+", <<"%","2","B">> >>, <<"=", <<"%","3","D">> >>, <<"#", <<"%","2","3">> >>,
  <<"?", <<"%","3","F">> >>, <<"/", <<"%","2","F">> >>, <<NL, <<"%","0","A">> >>,
  <<"\t", <<"%","0","9">> >>, <<"\r", <<"%","0","D">> >> >>
UriEscaped == {UriEscapes[k][1] : k \in 1..Len(UriEscapes)}
uriEscape(c) == UriEscapes[CHOOSE k \in 1..Len(UriEscapes) : UriEscapes[k][1] = c][2]

\* encodeURIComponent
encodeURIComponent(s) ==
  Concat([i \in 1..Len(s) |-> IF s[i] \in UriEscaped THEN uriEscape(s[i]) ELSE <<s[i]>>])

RECURSIVE searchParamsValue(_)
\* The value URLSearchParams gives for the text after `name=`: a + is a space and
\* each %XX is the character of that code
searchParamsValue(raw) ==
  IF raw = <<>> THEN <<>>
  ELSE IF raw[1] = "+" THEN <<" ">> \o searchParamsValue(Tail(raw))
  ELSE IF /\ raw[1] = "%" /\ Len(raw) >= 3
          /\ \E k \in 1..Len(UriEscapes) : UriEscapes[k][2] = SubSeq(raw, 1, 3)
       THEN <<UriEscapes[CHOOSE k \in 1..Len(UriEscapes) :
                           UriEscapes[k][2] = SubSeq(raw, 1, 3)][1]>>
            \o searchParamsValue(From(raw, 4))
  ELSE <<raw[1]>> \o searchParamsValue(Tail(raw))

(***************************************************************************)
(* The routes of App (<Routes> of react-router)                            *)
(***************************************************************************)
\* The branches of the route tree, in the order of the <Route> elements: the
\* full path of each one, whether it is the index route, and its element
AppRoutes == <<
  [path |-> <<"/">>, index |-> FALSE, element |-> "Layout"],
  [path |-> <<"/">>, index |-> TRUE, element |-> "HomePage"],
  [path |-> <<"/","a","b","o","u","t">>, index |-> FALSE, element |-> "AboutPage"],
  [path |-> <<"/","c","o","n","t","a","c","t">>, index |-> FALSE, element |-> "ContactPage"],
  [path |-> <<"/","b","l","o","g">>, index |-> FALSE, element |-> "BlogList"],
  [path |-> <<"/",":","s","l","u","g">>, index |-> FALSE, element |-> "BlogPost"],
  [path |-> <<"/", "*">>, index |-> FALSE, element |-> "NotFoundPage"] >>

\* decodeURIComponent, for the escapes of UriEscapes
decodeURIComponent(s) ==
  LET starts == {i \in 1..Len(s) :
                   \E k \in 1..Len(UriEscapes) : OccursAt(s, UriEscapes[k][2], i)}
      decoded(i) == UriEscapes[CHOOSE k \in 1..Len(UriEscapes) :
                                OccursAt(s, UriEscapes[k][2], i)][1]
  IN  Concat([i \in 1..Len(s) |->
                IF i \in starts THEN <<decoded(i)>>
                ELSE IF (i - 1) \in starts \/ (i - 2) \in starts THEN <<>>
                ELSE <<s[i]>>])

\* The segments of a pathname or of a route path after its leading "/", the
\* empty ones at the end left out (a pattern ends with \/*$)
urlSegments(pathname) ==
  LET parts == Tail(split(pathname, "/"))
      full == {k \in 1..Len(parts) : parts[k] # <<>>}
  IN  IF full = {} THEN <<>> ELSE SubSeq(parts, 1, Max(full))

\* computeScore if a dynamic segment counted for more than a static one
computeScoreDynamicFirst(route) ==
  LET segments == split(route.path, "/")
      value(segment) == IF segment = <<"*">> THEN 0
                        ELSE IF segment # <<>> /\ segment[1] = ":" THEN 30
                        ELSE IF segment = <<>> THEN 1 ELSE 10
      sums[k \in 0..Len(segments)] ==
        IF k = 0 THEN 0 ELSE sums[k - 1] + value(segments[k])
  IN  Len(segments)
        + (IF \E k \in 1..Len(segments) : segments[k] = <<"*">> THEN -2 ELSE 0)
        + (IF route.index THEN 2 ELSE 0)
        + sums[Len(segments)]

\* computeScore(path, index) of react-router: the rank of a branch
computeScore(route) ==
  LET segments == split(route.path, "/")
      value(segment) == IF segment = <<"*">> THEN 0
                        ELSE IF segment # <<>> /\ segment[1] = ":" THEN 3
                        ELSE IF segment = <<>> THEN 1 ELSE 10
      sums[k \in 0..Len(segments)] ==
        IF k = 0 THEN 0 ELSE sums[k - 1] + value(segments[k])
  IN  Len(segments)
        + (IF \E k \in 1..Len(segments) : segments[k] = <<"*">> THEN -2 ELSE 0)
        + (IF route.index THEN 2 ELSE 0)
        + sums[Len(segments)]

\* matchPath: whether the pattern of the branch matches the pathname; a static
\* segment is compared without regard to case, a :param takes a non-empty
\* segment and a final * takes what is left
matchPath(route, pathname) ==
  LET pattern == urlSegments(route.path)
      segments == urlSegments(pathname)
      splat == pattern # <<>> /\ pattern[Len(pattern)] = <<"*">>
      fixed == IF splat THEN Len(pattern) - 1 ELSE Len(pattern)
  IN  /\ IF splat THEN Len(segments) >= fixed ELSE Len(segments) = fixed
      /\ \A k \in 1..fixed :
           IF pattern[k][1] = ":" THEN segments[k] # <<>>
           ELSE toLowerCase(segments[k]) = toLowerCase(pattern[k])

\* What <Routes> renders for the pathname: the element of the matching branch
\* of the highest score (the first one among equals), and the decoded :slug
matchRoutes(pathname) ==
  LET matching == {k \in 1..Len(AppRoutes) : matchPath(AppRoutes[k], pathname)}
      best == CHOOSE k \in matching : \A j \in matching :
                \/ computeScore(AppRoutes[k]) > computeScore(AppRoutes[j])
                \/ computeScore(AppRoutes[k]) = computeScore(AppRoutes[j]) /\ k <= j
  IN  [element |-> AppRoutes[best].element,
       slug |-> IF AppRoutes[best].element = "BlogPost"
                THEN decodeURIComponent(urlSegments(pathname)[1])
                ELSE Undefined]

(***************************************************************************)
(* BlogList and Pagination                                                 *)
(***************************************************************************)
PostsPerPage == 30

UnableToLoadPosts == <<"U","n","a","b","l","e"," ","t","o"," ","l","o","a","d"," ","b","l","o","g"," ","p","o","s","t","s">>

\* parseInt(s, 10): leading white space, an optional sign, then the digits up to
\* the first character that is not one; NaN when there is no digit
parseInt(s) ==
  LET start == RunEnd(s, 1, WhiteSpace)
      signed == start <= Len(s) /\ s[start] \in {"+", "-"}
      first == IF signed THEN start + 1 ELSE start
      last == RunEnd(s, first, Digit) - 1
      magnitude == number(SubSeq(s, first, last))
  IN  IF last < first THEN [nan |-> TRUE, value |-> 0]
      ELSE [nan |-> FALSE,
            value |-> IF signed /\ s[start] = "-" THEN 0 - magnitude ELSE magnitude]

RECURSIVE digitsOf(_)
digitsOf(n) == IF n < 10 THEN <<DigitSeq[n + 1]>>
               ELSE digitsOf(n \div 10) \o <<DigitSeq[(n % 10) + 1]>>
\* Number.prototype.toString of an integer
toString(n) == IF n < 0 THEN <<"-">> \o digitsOf(0 - n) ELSE digitsOf(n)

\* searchParams.get('search') || ''
searchQueryOf(searchParam) == IF Truthy(searchParam) THEN searchParam ELSE <<>>

\* a page-param effect that takes any number that parses
pageFromParamAnyNumber(pageParam) ==
  IF Truthy(pageParam)
  THEN LET pageNumber == parseInt(pageParam)
       IN  IF ~pageNumber.nan THEN pageNumber.value ELSE 1
  ELSE 1

\* The page that the page-param effect sets
pageFromParam(pageParam) ==
  IF Truthy(pageParam)
  THEN LET pageNumber == parseInt(pageParam)
       IN  IF ~pageNumber.nan /\ pageNumber.value > 0 THEN pageNumber.value ELSE 1
  ELSE 1

\* The predicate of posts.filter, comparing the fields as they are written
matchesQueryCaseSensitive(p, query) ==
  \/ includes(p.title, query)
  \/ includes(p.content, query)
  \/ (Truthy(p.excerpt) /\ includes(p.excerpt, query))
  \/ (Truthy(p.author) /\ includes(p.author, query))
\* The predicate of posts.filter
matchesQuery(p, query) ==
  \/ includes(toLowerCase(p.title), query)
  \/ includes(toLowerCase(p.content), query)
  \/ (Truthy(p.excerpt) /\ includes(toLowerCase(p.excerpt), query))
  \/ (Truthy(p.author) /\ includes(toLowerCase(p.author), query))

\* What the filter effect sets, with a blank query filtered like any other
filterPostsNoBlank(loaded, searchQuery) ==
  LET query == toLowerCase(searchQuery)
      keep(p) == matchesQuery(p, query)
  IN  SelectSeq(loaded, keep)
\* What the filter effect sets as filteredPosts
filterPosts(loaded, searchQuery) ==
  IF trim(searchQuery) = <<>> THEN loaded
  ELSE LET query == toLowerCase(searchQuery)
           keep(p) == matchesQuery(p, query)
       IN  SelectSeq(loaded, keep)

\* Math.ceil(filteredPosts.length / postsPerPage)
totalPagesOf(length) == (length + PostsPerPage - 1) \div PostsPerPage
\* the start of the page that follows
startIndexOfNextPage(page) == page * PostsPerPage
\* (currentPage - 1) * postsPerPage
startIndexOf(page) == (page - 1) * PostsPerPage
\* an end one post into the page that follows
endIndexOverlapping(page) == page * PostsPerPage + 1
\* startIndex + postsPerPage
endIndexOf(page) == startIndexOf(page) + PostsPerPage

\* Array.prototype.slice(start, end), start and end counted from 0 and not negative
slice(arr, start, end) ==
  LET from == Min({start, Len(arr)})
      to == Min({end, Len(arr)})
  IN  IF to <= from THEN <<>> ELSE SubSeq(arr, from + 1, to)

\* blogConfig.ui.preview.count
PreviewCount == 3
\* BlogPreview: fetchedPosts.slice(0, blogConfig.ui.preview.count)
previewPosts(fetchedPosts) == slice(fetchedPosts, 0, PreviewCount)

\* filteredPosts.slice(startIndex, endIndex)
currentPostsOf(filtered, page) == slice(filtered, startIndexOf(page), endIndexOf(page))

\* Math.min(startIndex + 1, filteredPosts.length), the first number of "Showing"
showingFrom(filtered, page) == Min({startIndexOf(page) + 1, Len(filtered)})
\* Math.min(endIndex, filteredPosts.length), the second number of "Showing"
showingTo(filtered, page) == Min({endIndexOf(page), Len(filtered)})

MaxPagesToShow == 5

\* Pagination.getPageNumbers: the page numbers shown, -1 and -2 standing for "..."
getPageNumbers(page, totalPages) ==
  LET rangeStart0 == Max({2, page - (MaxPagesToShow \div 2)})
      rangeEnd == Min({totalPages - 1, rangeStart0 + MaxPagesToShow - 2})
      rangeStart == IF rangeEnd - rangeStart0 < MaxPagesToShow - 2
                    THEN Max({2, rangeEnd - (MaxPagesToShow - 2)})
                    ELSE rangeStart0
  IN  <<1>>
      \o (IF rangeStart > 2 THEN <<-1>> ELSE <<>>)
      \o [k \in 1..(rangeEnd - rangeStart + 1) |-> rangeStart + k - 1]
      \o (IF rangeEnd < totalPages - 1 THEN <<-2>> ELSE <<>>)
      \o (IF totalPages > 1 THEN <<totalPages>> ELSE <<>>)

\* The pages that a link of Pagination passes to onPageChange: none when there is
\* one page at most, else Previous, Next and the numbers shown other than the
\* current page
pageLinks(page, totalPages) ==
  IF totalPages <= 1 THEN {}
  ELSE LET pageNumbers == getPageNumbers(page, totalPages)
       IN  (IF page > 1 THEN {page - 1} ELSE {})
           \cup (IF page < totalPages THEN {page + 1} ELSE {})
           \cup {pageNumbers[k] : k \in {j \in 1..Len(pageNumbers) :
                                          pageNumbers[j] >= 0 /\ pageNumbers[j] # page}}

\* Which of its four returns BlogList renders
listView(isLoading, errorText, filtered) ==
  IF isLoading THEN "loading"
  ELSE IF Truthy(errorText) THEN "error"
  ELSE IF Len(filtered) = 0 THEN "empty"
  ELSE "list"

(***************************************************************************)
(* BlogPost                                                                *)
(***************************************************************************)
PostNotFound == <<"P","o","s","t"," ","n","o","t"," ","f","o","u","n","d">>
UnableToLoadPost == <<"U","n","a","b","l","e"," ","t","o"," ","l","o","a","d"," ","b","l","o","g"," ","p","o","s","t">>

\* Which of its three returns BlogPost renders
postView(isLoading, errorText, loaded) ==
  IF isLoading THEN "loading"
  ELSE IF Truthy(errorText) \/ loaded = <<>> THEN "notFound"
  ELSE "post"

(***************************************************************************)
(* scripts/generate-sitemap.js                                             *)
(***************************************************************************)
MAX_URLS_PER_SITEMAP == 200

\* siteConfig.siteUrl: '../src/config/site.js' is not a file of the sources, so
\* the script falls back to the domain toolcrunch.org
SiteUrl == <<"h","t","t","p","s",":","/","/","t","o","o","l","c","r","u","n","c","h",".","o","r","g">>
\* new Date().toISOString().split('T')[0]
Today == <<"2","0","2","6","-","0","1","-","0","1">>

\* The createSlug the script falls back to: lower case, the characters other
\* than \w, white space and - removed, each run of white space, _ and - made
\* one -, the - at the two ends removed
sitemapCreateSlug(t) ==
  LET kept == SelectSeq(toLowerCase(t),
                        LAMBDA c : c \in WordChar \cup WhiteSpace \cup {"-"})
      hyphenated == replaceRuns(kept, WhiteSpace \cup {"_", "-"}, <<"-">>)
      inner == {i \in 1..Len(hyphenated) : hyphenated[i] # "-"}
  IN  IF inner = {} THEN <<>> ELSE SubSeq(hyphenated, Min(inner), Max(inner))

\* The base URLs, each with the priority as it is written
baseUrls == <<
  [loc |-> SiteUrl \o <<"/">>, lastmod |-> Today, priority |-> <<"1">>],
  [loc |-> SiteUrl \o <<"/","b","l","o","g">>, lastmod |-> Today, priority |-> <<"0",".","8">>],
  [loc |-> SiteUrl \o <<"/","a","b","o","u","t">>, lastmod |-> Today, priority |-> <<"0",".","7">>],
  [loc |-> SiteUrl \o <<"/","c","o","n","t","a","c","t">>, lastmod |-> Today, priority |-> <<"0",".","7">>],
  [loc |-> SiteUrl \o <<"/","s","i","t","e","m","a","p">>, lastmod |-> Today, priority |-> <<"0",".","5">>] >>

\* The URL of a markdown file that could be read
blogUrlOf(content) ==
  LET parsed == extractFrontMatter(content)
      title == orElse(fmGet(parsed.frontMatter, TitleKey),
                      extractTitleFromMarkdown(parsed.content))
      slug == IF Truthy(fmGet(parsed.frontMatter, SlugKey))
              THEN sitemapCreateSlug(fmGet(parsed.frontMatter, SlugKey))
              ELSE sitemapCreateSlug(title)
  IN  [loc |-> SiteUrl \o <<"/">> \o slug,
       lastmod |-> orElse(fmGet(parsed.frontMatter, DateKey), Today),
       priority |-> <<"0",".","7">>]

\* blogUrls if a file whose reading throws ended the loop
blogUrlsUntilFailure(files) ==
  LET failing == {k \in 1..Len(files) : files[k].unreadable}
      readable == IF failing = {} THEN files ELSE SubSeq(files, 1, Min(failing) - 1)
  IN  [k \in 1..Len(readable) |-> blogUrlOf(readable[k].content)] \o <<>>

\* blogUrls: a file whose reading throws is passed over
blogUrls(files) ==
  LET readable == SelectSeq(files, LAMBDA f : ~f.unreadable)
  IN  [k \in 1..Len(readable) |-> blogUrlOf(readable[k].content)] \o <<>>

\* chunks if the loop advanced by one URL less than a file holds
chunksOverlapping(allUrls) ==
  [c \in 1..((Len(allUrls) + MAX_URLS_PER_SITEMAP - 2) \div (MAX_URLS_PER_SITEMAP - 1)) |->
     SubSeq(allUrls, (c - 1) * (MAX_URLS_PER_SITEMAP - 1) + 1,
            Min({Len(allUrls), (c - 1) * (MAX_URLS_PER_SITEMAP - 1) + MAX_URLS_PER_SITEMAP}))]

\* chunks: allUrls.slice(i, i + MAX_URLS_PER_SITEMAP) for i = 0, 200, 400, ...
chunksOf(allUrls) ==
  [c \in 1..((Len(allUrls) + MAX_URLS_PER_SITEMAP - 1) \div MAX_URLS_PER_SITEMAP) |->
     SubSeq(allUrls, (c - 1) * MAX_URLS_PER_SITEMAP + 1,
            Min({Len(allUrls), c * MAX_URLS_PER_SITEMAP}))]

\* sitemap-<counter>.xml
chunkFileName(counter) == <<"s","i","t","e","m","a","p","-">> \o toString(counter) \o <<".","x","m","l">>

\* What createSitemapFile writes: a <urlset> of one <url> for each item
createSitemapFile(urls) == [root |-> "urlset", items |-> urls]

\* What createSitemapIndex writes: a <sitemapindex> of one <sitemap> for each file
createSitemapIndex(sitemapFiles) ==
  [root |-> "sitemapindex",
   items |-> [k \in 1..Len(sitemapFiles) |->
                [loc |-> SiteUrl \o <<"/","s","i","t","e","m","a","p","s","/">> \o sitemapFiles[k], lastmod |-> Today]]]

\* What generateRobotsTxt writes, line by line
robotsTxtContent == <<
  <<"#"," ","r","o","b","o","t","s",".","t","x","t"," ","f","o","r"," ">> \o SiteUrl,
  <<"U","s","e","r","-","a","g","e","n","t",":"," ","*">>,
  <<"A","l","l","o","w",":"," ","/">>,
  <<>>,
  <<"#"," ","S","i","t","e","m","a","p"," ","l","o","c","a","t","i","o","n">>,
  <<"S","i","t","e","m","a","p",":"," ">> \o SiteUrl \o <<"/","s","i","t","e","m","a","p",".","x","m","l">>,
  <<>>,
  <<"#"," ","B","l","o","c","k"," ","s","p","e","c","i","f","i","c"," ","d","i","r","e","c","t","o","r","i","e","s"," ","o","r"," ","f","i","l","e","s"," ","i","f"," ","n","e","e","d","e","d">>,
  <<"#"," ","D","i","s","a","l","l","o","w",":"," ","/","p","r","i","v","a","t","e","/">>,
  <<"#"," ","D","i","s","a","l","l","o","w",":"," ","/","a","d","m","i","n","/">>,
  <<>>,
  <<"#"," ","C","r","a","w","l"," ","d","e","l","a","y"," ","f","o","r"," ","b","o","t","s"," ","(","o","p","t","i","o","n","a","l",")">>,
  <<"C","r","a","w","l","-","d","e","l","a","y",":"," ","1","0">>,
  <<>> >>

\* Whether the file of the directory is one the script removes before it splits
isSitemapFile(name) ==
  /\ startsWith(name, <<"s","i","t","e","m","a","p">>)
  /\ Len(name) >= 4 /\ SubSeq(name, Len(name) - 3, Len(name)) = <<".","x","m","l">>

\* generateSitemap: what public/sitemap.xml and public/sitemaps hold after it,
\* for the markdown files and the directory public/sitemaps found
generateSitemap(files, dir) ==
  LET allUrls == baseUrls \o blogUrls(files)
      chunks == chunksOf(allUrls)
  IN  IF Len(allUrls) > MAX_URLS_PER_SITEMAP
      THEN [xml |-> createSitemapIndex([c \in 1..Len(chunks) |-> chunkFileName(c)]),
            dir |-> {f \in dir : ~isSitemapFile(f.name)}
                      \cup {[name |-> chunkFileName(c),
                             content |-> createSitemapFile(chunks[c])] :
                              c \in 1..Len(chunks)}]
      ELSE [xml |-> createSitemapFile(allUrls), dir |-> dir]

(***************************************************************************)
(* Bounds and inputs                                                       *)
(***************************************************************************)
MaxTextLen == 3
\* how many fragments a generated body is made of at most
MaxFrags == 2

RECURSIVE StringsUpTo(_, _)
\* the strings over `alphabet` of length at most n
StringsUpTo(alphabet, n) ==
  IF n = 0 THEN {<<>>}
  ELSE LET shorter == StringsUpTo(alphabet, n - 1)
       IN  shorter \cup {Append(s, c) : s \in shorter, c \in alphabet}

\* Characters of each class createSlug tells apart
SlugAlphabet == {"a", "B", "7", " ", "-", "_", "&", "!", NL}

\* What a markdown body is made of
Fragments == {
  <<"#"," ","T",NL>>,   \* a heading
  <<"t","x","t"," ">>,   \* text
  <<".">>,   \* the end of a sentence
  <<NL>>,   \* a line break
  <<"!","[","a","]","(","/","i",".","p","n","g",")">>,   \* a markdown image
  <<"!","[","a","]","(",")">>,   \* a markdown image without a URL
  <<"h","t","t","p",":","/","/","h","/","p",".","j","p","g">>,   \* the URL of an image
  <<"<","i","m","g"," ","s","r","c","=","\"","q",".","g","i","f","\"",">">>,   \* an HTML image
  <<"h","t","t","p","s",":","/","/","y","o","u","t","u",".","b","e","/","a","b","c","d","e","f","g","h","i","j","k">>,   \* the URL of a video
  <<"h","t","t","p","s",":","/","/","w","w","w",".","y","o","u","t","u","b","e",".","c","o","m","/","e","m","b","e","d","/","A","B","C","D","E","F","G","H","I","J","K">>,   \* the embed URL of a video
  <<"[","l","]","(","u",")">>,   \* a link
  <<" ">>   \* a space
  }

RECURSIVE BodiesUpTo(_)
\* the bodies of at most n fragments
BodiesUpTo(n) ==
  IF n = 0 THEN {<<>>}
  ELSE LET shorter == BodiesUpTo(n - 1)
       IN  shorter \cup {b \o f : b \in shorter, f \in Fragments}

\* What a content file starts with
FrontMatters == {
  <<"-","-","-",NL,"t","i","t","l","e",":"," ","H","e","l","l","o"," ","W","o","r","l","d","!",NL,"-","-","-",NL>>,   \* a title
  <<"-","-","-",NL,"t","i","t","l","e",":"," ","A",NL,"s","l","u","g",":"," ","M","y","_","S","l","u","g"," ","2",NL,"-","-","-",NL>>,   \* a title and a slug
  <<"-","-","-",NL,"t","i","t","l","e",":",NL,"a","u","t","h","o","r",":"," ","B","o","b",NL,"-","-","-",NL>>,   \* an empty title, an author
  <<"-","-","-",NL,"e","x","c","e","r","p","t",":"," ","S","u","m",":"," ","u","p",NL,"a","u","t","h","o","r",":"," ",NL,"-","-","-",NL>>,   \* a colon in a value, an empty author
  <<"-","-","-",NL,"t","i","t","l","e",":"," ","X",NL,"t","i","t","l","e",":"," ","Y",NL,"-","-","-",NL>>,   \* a key given twice
  <<"-","-","-",NL,"d","a","t","e",":"," ","2","0","2","4","-","0","1","-","1","5",NL,"t","i","t","l","e",":"," ","O","l","d",NL,"-","-","-",NL>>,   \* a date
  <<"-","-","-",NL,"-","-","-",NL>>,   \* no line between the delimiters
  <<"-","-","-","\r",NL,"t","i","t","l","e",":"," ","X","\r",NL,"-","-","-","\r",NL>>,   \* lines ending in CR LF
  <<"t","e","x","t",NL,"-","-","-",NL,"t","i","t","l","e",":"," ","X",NL,"-","-","-",NL>>,   \* delimiters after the start of the file
  <<"-","-","-",NL,"n","o","t","e",NL,":"," ","v",NL,"t","i","m","e",":"," ","1","0",":","3","0",":","0","0",NL," ","k"," ",":"," ","w"," ",NL," ",":"," ","z",NL,"-","-","-",NL>>   \* a line without a colon, one without a key, colons in a value, spaces around a key, a blank key
  }

\* What follows the front matter
FrontMatterBodies == {
  <<>>,   \* no body
  <<"#"," ","H",NL,"b","o","d","y">>,   \* a heading and text
  <<"!","[","a","]","(","/","i",".","p","n","g",")">>   \* an image
  }

\* a text of 33 words, longer than a meta description
LongText == Concat([k \in 1..33 |-> <<"w","o","r","d"," ">>])

WholeFiles == {
  LongText,
  <<"-","-","-",NL,"t","i","t","l","e",":"," ","X",NL,"-","-","-">>,   \* front matter that ends the file without a line break
  <<"-","-","-",NL,"t","i","t","l","e",":"," ","X",NL,"-","-","-",NL,"b","o","d","y",NL,"-","-","-",NL,"m","o","r","e">>   \* a --- line in the body
  }

\* Content files with and without a date
DatedFiles == <<
  <<"-","-","-",NL,"t","i","t","l","e",":"," ","O","n","e",NL,"d","a","t","e",":"," ","2","0","2","4","-","0","1","-","1","5",NL,"-","-","-",NL,"f","i","r","s","t">>,   \* dated 2024-01-15
  <<"-","-","-",NL,"t","i","t","l","e",":"," ","T","w","o",NL,"d","a","t","e",":"," ","2","0","2","4","-","0","3","-","0","1","T","1","0",":","0","0",":","0","0",".","0","0","0","Z",NL,"-","-","-",NL,"s","e","c","o","n","d">>,   \* dated 2024-03-01
  <<"-","-","-",NL,"t","i","t","l","e",":"," ","T","h","r","e","e",NL,"d","a","t","e",":"," ","s","o","o","n",NL,"-","-","-",NL,"t","h","i","r","d">>,   \* a date that is no date
  <<"#"," ","F","o","u","r",NL,"f","o","u","r","t","h">>   \* undated
  >>

\* pairs and triples of dated files
DatedBundles ==
  {<<DatedFiles[i], DatedFiles[j]>> : i, j \in 1..Len(DatedFiles)}
  \cup {<<DatedFiles[i], DatedFiles[j], DatedFiles[k]>> :
          i \in {1, 4}, j \in {2, 4}, k \in {3, 4}}
  \cup {<<DatedFiles[1], DatedFiles[2], DatedFiles[4], DatedFiles[1]>>,
        <<DatedFiles[1], DatedFiles[3], DatedFiles[2], DatedFiles[4]>>}

FilePool ==
  BodiesUpTo(MaxFrags) \cup {fm \o b : fm \in FrontMatters, b \in FrontMatterBodies}
  \cup WholeFiles

\* bundles whose titles give slugs that meet: two posts with one title, a post
\* titled as a page of the application, and a title without a letter or digit
TitledBundles == {
  <<<<"#"," ","P","e","a","r",NL,"f","i","r","s","t">>,
    <<"#"," ","P","e","a","r",NL,"s","e","c","o","n","d">>>>,
  <<<<"#"," ","A","b","o","u","t",NL,"t","e","a","m">>>>,
  <<<<"#"," ","!","!","!",NL,"x">>,
    <<"#"," ","K","i","w","i",NL,"y">>>> }

\* the bundles of content files that getAllPosts is run on
Bundles == {<<f>> : f \in FilePool} \cup DatedBundles \cup TitledBundles \cup {<<>>}

\* new Date().toISOString() at two moments one millisecond apart
Now == <<"2","0","2","6","-","0","1","-","0","1","T","0","0",":","0","0",":","0","0",".","0","0","0","Z">>
NowLater == <<"2","0","2","6","-","0","1","-","0","1","T","0","0",":","0","0",":","0","0",".","0","0","1","Z">>
\* the clock while n files are processed: it ticks after `tick` of them
clockOf(n, tick) == [i \in 1..n |-> IF i <= tick THEN Now ELSE NowLater]

\* What a content file of the blog list's bundle is made of
BaseFiles == <<
  <<"-","-","-",NL,"t","i","t","l","e",":"," ","A","l","p","h","a",NL,"a","u","t","h","o","r",":"," ","B","o","b",NL,"-","-","-",NL,"r","e","d"," ","a","p","p","l","e">>,
  <<"#"," ","B","e","t","a",NL,"G","r","e","e","n"," ","P","E","A","R">>,
  <<"-","-","-",NL,"t","i","t","l","e",":"," ","G","a","m","m","a",NL,"a","u","t","h","o","r",":"," ","A","n","n",NL,"e","x","c","e","r","p","t",":"," ","R","e","d",NL,"d","a","t","e",":"," ","2","0","2","4","-","0","3","-","0","1",NL,"-","-","-",NL,"p","l","u","m">>,
  <<"-","-","-",NL,"d","a","t","e",":"," ","2","0","2","4","-","0","1","-","1","5",NL,"-","-","-",NL,"#"," ","D","e","l","t","a"," ","P","o","s","t",NL,"k","i","w","i"," ","a","+","b"," ","c">>
  >>
\* a bundle of n content files, each ending with a line of its own
bundleOf(n) ==
  [k \in 1..n |-> BaseFiles[((k - 1) % Len(BaseFiles)) + 1] \o <<NL>> \o toString(k)]
\* none, less than a page, a page, one more, more than two pages
FileCounts == {0, 2, PostsPerPage, PostsPerPage + 1, 2 * PostsPerPage + 1}

\* the ?search= of the URL the blog list is opened with
SearchParams == {Null, <<>>, <<" ">>, <<"r","e","d">>, <<"R","E","D">>, <<"B","o","b">>, <<"z","z","z">>}
\* the ?page= of the URL the blog list is opened with
PageParams == {Null, <<"2">>, <<"3">>, <<"0">>, <<"-","2">>, <<"a","b","c">>, <<"2","x">>, <<"7">>}
\* what is typed into the search bar
SubmitQueries == {<<" ">>, <<" ","p","e","a","r"," ">>, <<"a","+","b"," ","c">>}
\* the :slug of the URL a post is opened with
SlugParams == {Undefined, <<"a","l","p","h","a">>, <<"A","l","p","h","a">>, <<"n","o","p","e">>}

\* the URLs the blog list is opened with: a search, a page, or the two
ListUrls ==
  {<<q, Null>> : q \in SearchParams} \cup {<<Null, p>> : p \in PageParams}
  \cup {<<<<"r","e","d">>, <<"2">>>>, <<<<"z","z","z">>, <<"3">>>>}

BlogPath == "/blog"
\* blogConfig.routes.blog
BlogRoute == "/blog/"
PostPath == "/:slug"

\* when the clock ticks while n files are processed: never, or half way
Ticks(n) == {n, n \div 2}

\* What a pathname is made of
RouteSegments == {
  <<"a","b","o","u","t">>,
  <<"A","b","o","u","t">>,
  <<"c","o","n","t","a","c","t">>,
  <<"C","O","N","T","A","C","T">>,
  <<"b","l","o","g">>,
  <<"x">>,
  <<"m","y","-","p","o","s","t">>,
  <<"a","%","2","0","b">>,
  <<"s","i","t","e","m","a","p">>,
  <<"a","l","p","h","a">> }
\* the pathnames the application is opened at: of no segment, of one (with and
\* without a closing slash) and of two
RoutePaths ==
  {<<"/">>} \cup {<<"/">> \o s : s \in RouteSegments}
  \cup {<<"/">> \o s \o <<"/">> : s \in RouteSegments}
  \cup {<<"/">> \o s \o <<"/">> \o t : s \in RouteSegments, t \in RouteSegments}

\* The markdown files of blog-content: n files, each with a heading of its own;
\* the first one is dated, and in a variant the second one cannot be read, or
\* the last one has the heading of the first
contentDir(n, variant) ==
  [k \in 1..n |->
     [content |->
        (IF k = 1 THEN <<"-","-","-",NL,"d","a","t","e",":"," ","2","0","2","4","-","0","1","-","1","5",NL,"-","-","-",NL>> ELSE <<>>)
        \o <<"#", " ", "P">>
        \o toString(IF k = n /\ variant = "twice" THEN 1 ELSE k),
      unreadable |-> (k = 2 /\ variant = "unreadable")]]
\* the directories the script is run on: with the 5 base URLs they give 5, 7,
\* 200, 201 and 401 URLs; 200 and 400 when one of 196 and of 396 files cannot
\* be read
ContentDirs ==
  {contentDir(n, "plain") : n \in {0, 2, 195, 196, 396}}
  \cup {contentDir(196, "unreadable"), contentDir(396, "twice"),
        contentDir(396, "unreadable")}

(***************************************************************************)
(* The state of the parts that a specification leaves alone                *)
(***************************************************************************)
NoSlugCall == text = <<>> /\ slug1 = Null /\ slug2 = Null
NoPostsCall == called = FALSE /\ fetched = <<>>
\* the state of BlogList and of BlogPost as useState initialises them
ListUnmounted ==
  /\ posts = <<>> /\ filteredPosts = <<>> /\ loading = TRUE /\ error = Null
  /\ currentPage = 1
PostUnmounted == post = <<>> /\ postLoading = TRUE /\ postError = Null
NoPage ==
  /\ location = [pathname |-> "/", slug |-> Undefined, search |-> Null, page |-> Null]
  /\ ListUnmounted /\ PostUnmounted /\ effects = {} /\ request = "idle"
\* a file that has not been written
NoFile == [root |-> "none", items |-> <<>>]
\* the application opened at "/"
NoVisit == address = <<"/">> /\ routed = [element |-> "HomePage", slug |-> Undefined]
\* Pagination with one page, which renders nothing
NoPagination == [currentPage |-> 1, totalPages |-> 1, pageNumbers |-> <<>>, links |-> {}]
\* RelatedBlogPosts as useState initialises it
NoRelated == [currentPostSlug |-> Undefined, relatedPosts |-> <<>>, loading |-> TRUE]
NoWidgets == pagination = NoPagination /\ related = NoRelated
\* no content file and nothing generated yet
NoSitemapRun ==
  /\ markdownFiles = <<>> /\ sitemapXml = NoFile /\ sitemapDir = {} /\ robotsTxt = Null

(***************************************************************************)
(* SpecSlug: createSlug applied to a text, then to its own result          *)
(***************************************************************************)
InitSlug ==
  /\ text \in StringsUpTo(SlugAlphabet, MaxTextLen)
  /\ slug1 = Null
  /\ slug2 = Null
  /\ bundle = <<>> /\ loadFails = FALSE
  /\ NoPostsCall /\ NoPage /\ NoVisit /\ NoSitemapRun /\ NoWidgets

CallCreateSlug ==
  /\ slug1 = Null
  /\ slug1' = createSlug(text)
  /\ UNCHANGED <<widgetVars, text, slug2, bundle, loadFails, routerVars, sitemapVars, postsVars, location, listVars,
                 postVars, effects, request>>

CallCreateSlugAgain ==
  /\ slug1 # Null
  /\ slug2 = Null
  /\ slug2' = createSlug(slug1)
  /\ UNCHANGED <<widgetVars, text, slug1, bundle, loadFails, routerVars, sitemapVars, postsVars, location, listVars,
                 postVars, effects, request>>

NextSlug == CallCreateSlug \/ CallCreateSlugAgain

SpecSlug == InitSlug /\ [][NextSlug]_vars

(***************************************************************************)
(* SpecPosts: getAllPosts run on a bundle of content files                 *)
(***************************************************************************)
InitPosts ==
  /\ bundle \in Bundles
  /\ loadFails \in BOOLEAN
  /\ NoPostsCall /\ NoSlugCall /\ NoPage /\ NoVisit /\ NoSitemapRun /\ NoWidgets

GetAllPosts ==
  /\ ~called
  /\ \E tick \in 0..Len(bundle) :
       fetched' \in sortOutcomes(
         getAllPostsSettled(bundle, clockOf(Len(bundle), tick), loadFails).value)
  /\ called' = TRUE
  /\ UNCHANGED <<widgetVars, slugVars, bundle, loadFails, routerVars, sitemapVars, location, listVars, postVars,
                 effects, request>>

NextPosts == GetAllPosts

SpecPosts == InitPosts /\ [][NextPosts]_vars

(***************************************************************************)
(* Spec: the blog list and the blog post in the router                     *)
(***************************************************************************)
onBlogList == location.pathname \in {BlogPath, BlogRoute}
onBlogPost == location.pathname = PostPath

\* What mounting the component of the route `to` leaves: the initial state of
\* its useState calls and all its effects to run
mounted(to) ==
  /\ posts' = <<>> /\ filteredPosts' = <<>> /\ loading' = TRUE /\ error' = Null
  /\ currentPage' = 1
  /\ post' = <<>> /\ postLoading' = TRUE /\ postError' = Null
  /\ effects' = IF to.pathname = PostPath THEN {"load"} ELSE {"page", "fetch", "filter"}
  /\ request' = "idle"

\* navigate(to) and <Link to>: <Routes key={location.pathname}> mounts the route's
\* component anew when the pathname changes; otherwise the component stays and
\* the effects whose dependencies changed are to run
navigate(to) ==
  /\ location' = to
  /\ IF to.pathname # location.pathname \/ to.slug # location.slug
     THEN mounted(to)
     ELSE /\ effects' = effects
                \cup (IF to.page # location.page THEN {"page"} ELSE {})
                \cup (IF searchQueryOf(to.search) # searchQueryOf(location.search)
                      THEN {"filter"} ELSE {})
          /\ UNCHANGED <<listVars, postVars, request>>

Init ==
  /\ bundle \in {bundleOf(n) : n \in FileCounts}
  /\ loadFails \in BOOLEAN
  /\ location \in
       {[pathname |-> BlogPath, slug |-> Undefined, search |-> q, page |-> p] :
          <<q, p>> \in ListUrls}
       \cup {[pathname |-> PostPath, slug |-> sl, search |-> Null, page |-> Null] :
               sl \in SlugParams}
  /\ ListUnmounted /\ PostUnmounted
  /\ effects = IF location.pathname = PostPath THEN {"load"}
               ELSE {"page", "fetch", "filter"}
  /\ request = "idle"
  /\ NoSlugCall /\ NoPostsCall /\ NoVisit /\ NoSitemapRun /\ NoWidgets

\* BlogList's effects that are to run, in the order of their useEffect calls
ListFlushEffects ==
  /\ onBlogList /\ effects # {}
  /\ currentPage' = IF "page" \in effects THEN pageFromParam(location.page)
                    ELSE currentPage
  /\ request' = IF "fetch" \in effects THEN "pending" ELSE request
  /\ filteredPosts' = IF "filter" \in effects
                      THEN filterPosts(posts, searchQueryOf(location.search))
                      ELSE filteredPosts
  /\ effects' = {}
  /\ UNCHANGED <<widgetVars, slugVars, bundle, loadFails, routerVars, sitemapVars, postsVars, location, posts, loading,
                 error, postVars>>

\* the promise settles and loading is left as it is
ListFetchSettleStillLoading ==
  /\ onBlogList /\ request = "pending"
  /\ \E tick \in Ticks(Len(bundle)) :
       LET settled == getAllPostsSettled(bundle, clockOf(Len(bundle), tick), loadFails)
       IN  IF settled.rejected
           THEN error' = UnableToLoadPosts /\ UNCHANGED posts
           ELSE posts' = settled.value /\ UNCHANGED error
  /\ request' = "settled"
  /\ effects' = effects \cup {"filter"}
  /\ UNCHANGED <<widgetVars, slugVars, bundle, loadFails, routerVars, sitemapVars,
                 postsVars, location, filteredPosts, currentPage, postVars, loading>>

\* The promise of getAllPosts() settles in BlogList: .then, or .catch; setPosts
\* gets a new array, so the filter effect is to run
ListFetchSettle ==
  /\ onBlogList /\ request = "pending"
  /\ \E tick \in Ticks(Len(bundle)) :
       LET settled == getAllPostsSettled(bundle, clockOf(Len(bundle), tick), loadFails)
       IN  IF settled.rejected
           THEN error' = UnableToLoadPosts /\ UNCHANGED posts
           ELSE posts' = settled.value /\ UNCHANGED error
  /\ loading' = FALSE
  /\ request' = "settled"
  /\ effects' = effects \cup {"filter"}
  /\ UNCHANGED <<widgetVars, slugVars, bundle, loadFails, routerVars, sitemapVars, postsVars, location, filteredPosts,
                 currentPage, postVars>>

\* handlePageChange if it built the URL parameters anew
HandlePageChangeNewParams ==
  /\ onBlogList /\ effects = {}
  /\ listView(loading, error, filteredPosts) = "list"
  /\ \E page \in pageLinks(currentPage, totalPagesOf(Len(filteredPosts))) :
       /\ currentPage' = page
       /\ location' = [location EXCEPT !.page = toString(page), !.search = Null]
       /\ effects' = (IF toString(page) # location.page THEN {"page"} ELSE {})
                       \cup (IF searchQueryOf(location.search) # <<>>
                             THEN {"filter"} ELSE {})
  /\ UNCHANGED <<widgetVars, slugVars, bundle, loadFails, routerVars, sitemapVars, postsVars,
                 posts, filteredPosts, loading, error, postVars, request>>

\* A click on a link of Pagination: handlePageChange(page)
HandlePageChange ==
  /\ onBlogList /\ effects = {}
  /\ listView(loading, error, filteredPosts) = "list"
  /\ \E page \in pageLinks(currentPage, totalPagesOf(Len(filteredPosts))) :
       /\ currentPage' = page
       /\ location' = [location EXCEPT !.page = toString(page)]
       /\ effects' = IF toString(page) # location.page THEN {"page"} ELSE {}
  /\ UNCHANGED <<widgetVars, slugVars, bundle, loadFails, routerVars, sitemapVars, postsVars, posts, filteredPosts,
                 loading, error, postVars, request>>

\* handleSubmit if it took the query as it was typed
handleSubmitUntrimmed(query) ==
  IF query # <<>>
  THEN navigate([pathname |-> BlogRoute, slug |-> Undefined,
                 search |-> searchParamsValue(encodeURIComponent(query)),
                 page |-> Null])
  ELSE UNCHANGED <<location, listVars, postVars, effects, request>>

\* SearchBar.handleSubmit with `query` typed in: if (query.trim())
\* navigate(`${blogConfig.routes.blog}?search=${encodeURIComponent(query.trim())}`)
handleSubmit(query) ==
  IF trim(query) # <<>>
  THEN navigate([pathname |-> BlogRoute, slug |-> Undefined,
                 search |-> searchParamsValue(encodeURIComponent(trim(query))),
                 page |-> Null])
  ELSE UNCHANGED <<location, listVars, postVars, effects, request>>

\* The search form of BlogList is submitted
SubmitSearch ==
  /\ onBlogList /\ effects = {}
  /\ listView(loading, error, filteredPosts) \in {"empty", "list"}
  /\ \E query \in SubmitQueries : handleSubmit(query)
  /\ UNCHANGED <<widgetVars, slugVars, bundle, loadFails, routerVars, sitemapVars, postsVars>>

\* A click on "Clear filters" or "View All Posts", shown for a search
ClearFilters ==
  /\ onBlogList /\ effects = {}
  /\ listView(loading, error, filteredPosts) \in {"empty", "list"}
  /\ Truthy(searchQueryOf(location.search))
  /\ navigate([pathname |-> BlogRoute, slug |-> Undefined, search |-> Null,
               page |-> Null])
  /\ UNCHANGED <<widgetVars, slugVars, bundle, loadFails, routerVars, sitemapVars, postsVars>>

\* A click on a post of the page shown
OpenPost ==
  /\ onBlogList /\ effects = {}
  /\ listView(loading, error, filteredPosts) = "list"
  /\ \E shown \in {currentPostsOf(filteredPosts, currentPage)[k] :
                     k \in 1..Len(currentPostsOf(filteredPosts, currentPage))} :
       navigate([pathname |-> PostPath, slug |-> shown.slug, search |-> Null,
                 page |-> Null])
  /\ UNCHANGED <<widgetVars, slugVars, bundle, loadFails, routerVars, sitemapVars, postsVars>>

\* BlogPost's effect
PostFlushEffects ==
  /\ onBlogPost /\ "load" \in effects
  /\ IF ~Truthy(location.slug)
     THEN /\ postError' = PostNotFound
          /\ postLoading' = FALSE
          /\ UNCHANGED request
     ELSE /\ request' = "pending"
          /\ UNCHANGED <<postError, postLoading>>
  /\ effects' = {}
  /\ UNCHANGED <<widgetVars, slugVars, bundle, loadFails, routerVars, sitemapVars, postsVars, location, listVars, post>>

\* The promise of getPostBySlug(slug) settles in BlogPost
PostFetchSettle ==
  /\ onBlogPost /\ request = "pending"
  /\ \E tick \in Ticks(Len(bundle)) :
       LET allPosts == getAllPostsSettled(bundle, clockOf(Len(bundle), tick),
                                          loadFails).value
           fetchedPost == getPostBySlug(allPosts, location.slug)
       IN  IF fetchedPost # <<>>
           THEN post' = fetchedPost /\ UNCHANGED postError
           ELSE postError' = PostNotFound /\ UNCHANGED post
  /\ postLoading' = FALSE
  /\ request' = "settled"
  /\ UNCHANGED <<widgetVars, slugVars, bundle, loadFails, routerVars, sitemapVars, postsVars, location, listVars, effects>>

\* A click on the link to the blog list that BlogPost shows
BackToList ==
  /\ onBlogPost /\ effects = {} /\ ~postLoading
  /\ navigate([pathname |-> BlogRoute, slug |-> Undefined, search |-> Null,
               page |-> Null])
  /\ UNCHANGED <<widgetVars, slugVars, bundle, loadFails, routerVars, sitemapVars, postsVars>>

Next ==
  \/ ListFlushEffects \/ ListFetchSettle \/ HandlePageChange \/ SubmitSearch
  \/ ClearFilters \/ OpenPost \/ PostFlushEffects \/ PostFetchSettle \/ BackToList

Spec == Init /\ [][Next]_vars

\* when ListFetchSettle is enabled
listFetchPending == onBlogList /\ request = "pending"

\* Spec with the scheduling of React and of the promise: an effect that is to run
\* does run after the render, and the promise of getAllPosts(), which neither
\* waits for anything nor rejects, settles.  The second condition is weak
\* fairness of ListFetchSettle, written with the condition under which the
\* action is enabled.
SpecLive ==
  /\ Init /\ [][Next]_vars
  /\ WF_vars(ListFlushEffects)
  /\ ([]<>~listFetchPending \/ []<><<ListFetchSettle>>_vars)

(***************************************************************************)
(* SpecRoutes: the application opened at a pathname                        *)
(***************************************************************************)
InitRoutes ==
  /\ NoVisit /\ NoWidgets
  /\ bundle = <<>> /\ loadFails = FALSE
  /\ NoSlugCall /\ NoPostsCall /\ NoPage /\ NoSitemapRun

\* The browser opens the pathname and <Routes> renders the element of its route
Visit ==
  /\ \E pathname \in RoutePaths :
       /\ address' = pathname
       /\ routed' = matchRoutes(pathname)
  /\ UNCHANGED <<widgetVars, slugVars, bundle, loadFails, postsVars, location, listVars,
                 postVars, effects, request, sitemapVars>>

NextRoutes == Visit

SpecRoutes == InitRoutes /\ [][NextRoutes]_vars

(***************************************************************************)
(* SpecSitemap: the script run on the content of blog-content              *)
(***************************************************************************)
InitSitemap ==
  /\ markdownFiles \in ContentDirs
  /\ sitemapXml = NoFile /\ sitemapDir = {} /\ robotsTxt = Null
  /\ bundle = <<>> /\ loadFails = FALSE
  /\ NoSlugCall /\ NoPostsCall /\ NoPage /\ NoVisit /\ NoWidgets

\* node scripts/generate-sitemap.js
GenerateSitemap ==
  /\ sitemapXml' = generateSitemap(markdownFiles, sitemapDir).xml
  /\ sitemapDir' = generateSitemap(markdownFiles, sitemapDir).dir
  /\ robotsTxt' = robotsTxtContent
  /\ UNCHANGED <<widgetVars, slugVars, bundle, loadFails, postsVars, location, listVars,
                 postVars, effects, request, routerVars, markdownFiles>>

\* Posts are written or removed between two runs of the script
EditContent ==
  /\ markdownFiles' \in ContentDirs \ {markdownFiles}
  /\ UNCHANGED <<widgetVars, slugVars, bundle, loadFails, postsVars, location, listVars,
                 postVars, effects, request, routerVars, sitemapXml, sitemapDir,
                 robotsTxt>>

NextSitemap == GenerateSitemap \/ EditContent

SpecSitemap == InitSitemap /\ [][NextSitemap]_vars

\* C1: createSlug is idempotent: slugging a slug gives the slug back
\* (createSlug is a function of its argument alone, so two calls agree).
C1_SlugIdempotent == slug2 # Null => slug2 = slug1

\* a text with an upper-case letter and a separator was slugged twice
C1_Witness ==
  /\ slug2 # Null
  /\ \E i \in 1..Len(text) : text[i] \in Upper
  /\ \E i \in 1..Len(slug1) : slug1[i] = "-"
  /\ slug1 # text

(***************************************************************************)
(* Properties of getAllPosts (SpecPosts)                                   *)
(***************************************************************************)
SlugChars == Lower \cup Digit \cup {"-"}

\* C7: every post that getAllPosts returns has a slug made of lowercase letters,
\* digits and hyphens only, whether it comes from the title or from the front
\* matter's slug.
C7_SlugLowercaseHyphenated ==
  called => \A i \in 1..Len(fetched) :
              \A k \in 1..Len(fetched[i].slug) : fetched[i].slug[k] \in SlugChars

\* a post whose front-matter slug has an upper-case letter, an underscore and a
\* space, and a post whose slug comes from a title with upper case and a space
C7_Witness ==
  /\ called /\ ~loadFails
  /\ \/ /\ bundle = <<<<"-","-","-",NL,"t","i","t","l","e",":"," ","A",NL,"s","l","u","g",":"," ","M","y","_","S","l","u","g"," ","2",NL,"-","-","-",NL>>>>
        /\ fetched[1].slug = <<"m","y","s","l","u","g","-","2">>
     \/ /\ bundle = <<<<"-","-","-",NL,"t","i","t","l","e",":"," ","H","e","l","l","o"," ","W","o","r","l","d","!",NL,"-","-","-",NL,"#"," ","H",NL,"b","o","d","y">>>>
        /\ fetched[1].slug = <<"h","e","l","l","o","-","w","o","r","l","d">>

ThumbnailPrefix == <<"h","t","t","p","s",":","/","/","i","m","g",".","y","o","u","t","u","b","e",".","c","o","m","/","v","i","/">>
ThumbnailSuffix == <<"/","m","a","x","r","e","s","d","e","f","a","u","l","t",".","j","p","g">>

hasValue(frontMatter, key) ==
  fmGet(frontMatter, key) # Undefined /\ fmGet(frontMatter, key) # <<>>

\* Whether the post is the one that the claimed precedence gives for the file
followsPrecedence(built, file) ==
  LET frontMatter == extractFrontMatter(file).frontMatter
      title == IF hasValue(frontMatter, TitleKey) THEN fmGet(frontMatter, TitleKey)
               ELSE extractTitleFromMarkdown(built.content)
  IN  /\ built.content = processMarkdownContent(extractFrontMatter(file).content)
      /\ built.title = title
      /\ built.slug = IF hasValue(frontMatter, SlugKey)
                      THEN createSlug(fmGet(frontMatter, SlugKey))
                      ELSE createSlug(title)
      /\ built.excerpt = IF hasValue(frontMatter, ExcerptKey)
                         THEN fmGet(frontMatter, ExcerptKey)
                         ELSE generateMetaDescription(built.content)
      /\ built.author = IF hasValue(frontMatter, AuthorKey)
                        THEN fmGet(frontMatter, AuthorKey)
                        ELSE DefaultAuthor

\* C9: in each post that getAllPosts builds, a non-empty front-matter value comes
\* before its fallback: title before the first heading (or 'Untitled Post'), slug
\* before the slug of the title, excerpt before the generated description, author
\* before the default author.
C9_FrontMatterPrecedence ==
  (called /\ ~loadFails) =>
    /\ Len(fetched) = Len(bundle)
    /\ \A j \in 1..Len(fetched) :
         \E i \in 1..Len(bundle) : followsPrecedence(fetched[j], bundle[i])

\* a file whose front matter gives title and slug and no author, and a file whose
\* front-matter title is empty while its body has a heading
C9_Witness ==
  /\ called /\ ~loadFails
  /\ \/ /\ bundle = <<<<"-","-","-",NL,"t","i","t","l","e",":"," ","A",NL,"s","l","u","g",":"," ","M","y","_","S","l","u","g"," ","2",NL,"-","-","-",NL,"#"," ","H",NL,"b","o","d","y">>>>
        /\ fetched[1].title = <<"A">>
        /\ fetched[1].author = DefaultAuthor
     \/ /\ bundle = <<<<"-","-","-",NL,"t","i","t","l","e",":",NL,"a","u","t","h","o","r",":"," ","B","o","b",NL,"-","-","-",NL,"#"," ","H",NL,"b","o","d","y">>>>
        /\ fetched[1].title = <<"H">>
        /\ fetched[1].author = <<"B","o","b">>

\* The lines of a content, a line ending at each "\n"
linesOf(content) == split(content, NL)
\* Whether the content starts with a block between two lines that are "---"
startsWithBlock(content) ==
  /\ Len(linesOf(content)) >= 2
  /\ linesOf(content)[1] = Delim
  /\ \E k \in 2..Len(linesOf(content)) : linesOf(content)[k] = Delim
\* the closing line of that block
closingLine(content) ==
  Min({k \in 2..Len(linesOf(content)) : linesOf(content)[k] = Delim})
\* the text after the closing line
afterBlock(content) ==
  join(SubSeq(linesOf(content), closingLine(content) + 1, Len(linesOf(content))),
       <<NL>>)

\* C10 as the specification states it: a content that does not start with a
\* "---" delimited block comes back unchanged with an empty front matter, and one
\* that does start with such a block gives as body the text after the closing
\* "---" line.  extractFrontMatter does not do this for a block that ends the
\* file without a line break, nor for a block with no line in it.
C10_FrontMatterOptional ==
  called => \A i \in 1..Len(bundle) :
    IF startsWithBlock(bundle[i])
    THEN extractFrontMatter(bundle[i]).content = afterBlock(bundle[i])
    ELSE /\ extractFrontMatter(bundle[i]).content = bundle[i]
         /\ extractFrontMatter(bundle[i]).frontMatter = <<>>

(***************************************************************************)
(* Properties of BlogList and BlogPost (Spec)                              *)
(***************************************************************************)
\* BlogList has loaded the posts and run its effects
listSettled == onBlogList /\ request = "settled" /\ effects = {}
\* the search query of the URL
searchQuery == searchQueryOf(location.search)
\* Whether the post is one of filteredPosts
isFiltered(p) == \E j \in 1..Len(filteredPosts) : filteredPosts[j] = p
\* Whether the lower-cased field holds the lower-cased query
holdsQuery(field, query) == includes(toLowerCase(field), toLowerCase(query))

\* C2: for a non-blank search query, a loaded post is in filteredPosts if and
\* only if the lower-cased query is a substring of its lower-cased title,
\* content, excerpt or author; so the letter case of the query does not matter.
C2_SearchCaseInsensitive ==
  (listSettled /\ trim(searchQuery) # <<>>) =>
    \A i \in 1..Len(posts) :
      isFiltered(posts[i]) <=>
        \/ holdsQuery(posts[i].title, searchQuery)
        \/ holdsQuery(posts[i].content, searchQuery)
        \/ holdsQuery(posts[i].excerpt, searchQuery)
        \/ holdsQuery(posts[i].author, searchQuery)

\* a query in upper case has kept some of the loaded posts, whose text has it in
\* lower case, and dropped others
C2_Witness ==
  /\ listSettled
  /\ searchQuery = <<"R","E","D">>
  /\ Len(filteredPosts) > 0 /\ Len(filteredPosts) < Len(posts)
  /\ \E i \in 1..Len(posts) :
       isFiltered(posts[i]) /\ includes(posts[i].content, <<"r","e","d">>)

\* C3: with an empty or white-space search query filteredPosts is the loaded
\* posts, in their order; with any query every filtered post is a loaded post.
C3_EmptyQueryAllPosts ==
  listSettled =>
    /\ trim(searchQuery) = <<>> => filteredPosts = posts
    /\ \A j \in 1..Len(filteredPosts) :
         \E i \in 1..Len(posts) : posts[i] = filteredPosts[j]

\* a query of one space has filtered a list in which a post has no space
C3_Witness ==
  /\ listSettled
  /\ searchQuery = <<" ">>
  /\ filteredPosts = posts
  /\ \E i \in 1..Len(posts) :
       ~(\/ includes(posts[i].title, <<" ">>) \/ includes(posts[i].content, <<" ">>)
         \/ includes(posts[i].excerpt, <<" ">>) \/ includes(posts[i].author, <<" ">>))

\* C4 as the specification states it: the startIndex and the endIndex of the page
\* slice are at most filteredPosts.length.  They are not: endIndex is past the
\* length on every page that is not full, and startIndex is past it when ?page=
\* is beyond the last page.
C4_IndicesWithinLength ==
  listSettled =>
    /\ (currentPage - 1) * PostsPerPage <= Len(filteredPosts)
    /\ (currentPage - 1) * PostsPerPage + PostsPerPage <= Len(filteredPosts)

\* how many posts of a list of `length` are on the page
onPage(length, page) ==
  Max({0, Min({PostsPerPage, length - (page - 1) * PostsPerPage})})

\* C4, amended: the page slice never reaches past the array.  currentPosts is
\* the posts of filteredPosts from startIndex on, as many as there are up to
\* postsPerPage (none when startIndex is past the end), and the two numbers of
\* "Showing a - b" are at most filteredPosts.length.
C4_SliceWithinLength ==
  onBlogList =>
    /\ currentPage >= 1
    /\ currentPostsOf(filteredPosts, currentPage)
         = [k \in 1..onPage(Len(filteredPosts), currentPage) |->
              filteredPosts[(currentPage - 1) * PostsPerPage + k]]
    /\ showingFrom(filteredPosts, currentPage) <= Len(filteredPosts)
    /\ showingTo(filteredPosts, currentPage) <= Len(filteredPosts)

\* the list is shown on a page past the last one, reached by Previous from the
\* page of the URL, and the page is empty
C4_Witness ==
  /\ listSettled
  /\ listView(loading, error, filteredPosts) = "list"
  /\ currentPage = 6
  /\ startIndexOf(currentPage) > Len(filteredPosts)
  /\ currentPostsOf(filteredPosts, currentPage) = <<>>

\* Whether no post of the bundle has the slug of the route
noPostOfSlug ==
  \A tick \in Ticks(Len(bundle)) :
    LET allPosts == getAllPosts(bundle, clockOf(Len(bundle), tick), loadFails)
    IN  \A i \in 1..Len(allPosts) : allPosts[i].slug # location.slug

\* C5: when the route has no slug, or no post has the slug of the route, BlogPost
\* ends not loading, with the error 'Post not found' and no post, and renders
\* the Post Not Found view.
C5_MissingPost ==
  (/\ onBlogPost /\ effects = {} /\ request # "pending"
   /\ (~Truthy(location.slug) \/ noPostOfSlug)) =>
    /\ ~postLoading
    /\ postError = PostNotFound
    /\ post = <<>>
    /\ postView(postLoading, postError, post) = "notFound"

\* BlogPost has ended on a route without a slug, or on a slug that no post has
\* although posts are loaded
C5_Witness ==
  /\ onBlogPost /\ effects = {} /\ ~postLoading
  /\ postError = PostNotFound
  /\ \/ location.slug = Undefined
     \/ location.slug = <<"n","o","p","e">> /\ ~loadFails /\ Len(bundle) > 0

\* C6 as the specification states it: when processing the content files throws
\* inside getAllPosts, BlogList ends not loading with the error 'Unable to load
\* blog posts' and shows it.  getAllPosts catches the exception and resolves to
\* [], so BlogList ends with no error and shows "No blog posts available yet."
C6_LoadFailureError ==
  (listSettled /\ loadFails) =>
    /\ ~loading
    /\ error = UnableToLoadPosts
    /\ listView(loading, error, filteredPosts) = "error"

(***************************************************************************)
(* Properties of the front-matter lines (SpecPosts)                        *)
(***************************************************************************)
\* the lines between the delimiters of a content whose front matter is matched
blockLines(content) ==
  split(SubSeq(content, Len(OpenDelim) + 1, frontMatterClose(content) - 1), NL)
\* where the first colon of the line is, 0 without a colon
firstColon(line) == IndexFrom(line, <<":">>, 1)
\* a line with text before its first colon
isEntryLine(line) == firstColon(line) > 1
\* the trimmed text before the first colon
lineKey(line) == trim(SubSeq(line, 1, firstColon(line) - 1))
\* the trimmed text after the first colon, further colons included
lineValue(line) == trim(From(line, firstColon(line) + 1))
\* the value of the last line of the key, undefined when no line has the key
lastValueOf(lines, key) ==
  LET at == {k \in 1..Len(lines) : isEntryLine(lines[k]) /\ lineKey(lines[k]) = key}
  IN  IF at = {} THEN Undefined ELSE lineValue(lines[Max(at)])

\* C11: each line of the front-matter block with text before its first colon is
\* one entry, whose key is that text trimmed and whose value is the rest of the
\* line trimmed, further colons kept; a line without a colon gives no entry; of
\* the lines of one key the last one gives the value.
C11_FrontMatterLines ==
  called => \A i \in 1..Len(bundle) :
    frontMatterClose(bundle[i]) # 0 =>
      LET frontMatter == extractFrontMatter(bundle[i]).frontMatter
          lines == blockLines(bundle[i])
      IN  /\ \A k \in 1..Len(lines) :
               IF isEntryLine(lines[k])
               THEN fmGet(frontMatter, lineKey(lines[k]))
                      = lastValueOf(lines, lineKey(lines[k]))
               ELSE firstColon(lines[k]) = 0 =>
                      \/ fmGet(frontMatter, trim(lines[k])) = Undefined
                      \/ \E n \in 1..Len(lines) :
                           isEntryLine(lines[n]) /\ lineKey(lines[n]) = trim(lines[k])
          /\ \A e \in 1..Len(frontMatter) :
               \E k \in 1..Len(lines) :
                 isEntryLine(lines[k]) /\ lineKey(lines[k]) = frontMatter[e][1]

\* a block with a line without a colon, a time as value and a key given twice
C11_Witness ==
  /\ called
  /\ \E i \in 1..Len(bundle) :
       LET frontMatter == extractFrontMatter(bundle[i]).frontMatter
       IN  \/ /\ startsWith(bundle[i], <<"-","-","-",NL,"n","o","t","e",NL,":"," ","v",NL,"t","i","m","e",":"," ","1","0",":","3","0",":","0","0",NL>>)
              /\ fmGet(frontMatter, <<"t","i","m","e">>) = <<"1","0",":","3","0",":","0","0">>
              /\ fmGet(frontMatter, <<"n","o","t","e">>) = Undefined
              /\ fmGet(frontMatter, <<"k">>) = <<"w">>
           \/ /\ startsWith(bundle[i], <<"-","-","-",NL,"t","i","t","l","e",":"," ","X",NL,"t","i","t","l","e",":"," ","Y",NL,"-","-","-",NL>>)
              /\ fmGet(frontMatter, TitleKey) = <<"Y">>

(***************************************************************************)
(* Properties of generateMetaDescription (SpecPosts)                       *)
(***************************************************************************)
\* the longest prefix of the text that ends where a word ends and is at most
\* `limit` characters long
wholeWordPrefix(plain, limit) ==
  LET ends == {n \in 0..Min({Len(plain), limit}) :
                 n = 0 \/ n = Len(plain) \/ plain[n + 1] = " "}
  IN  SubSeq(plain, 1, Max(ends))

\* C12 as the specification states it: the generated description is '...' after
\* the longest prefix of the plain text that is made of whole words and is at most
\* 160 characters long.  generateMetaDescription cuts at the last space of the
\* first 160 characters whether or not a word is broken there, so the last word
\* of a text that fits is lost and a text of one word gives '...' alone.
C12_WholeWordPrefix ==
  (called /\ ~loadFails) =>
    \A j \in 1..Len(fetched) :
      generateMetaDescription(fetched[j].content)
        = wholeWordPrefix(plainText(fetched[j].content), MetaDescriptionLength)
            \o <<".", ".", ".">>

(***************************************************************************)
(* Properties of the routes (SpecRoutes)                                   *)
(***************************************************************************)
\* the page of each static route, by the name of its path
StaticPages == <<
  <<<<"a","b","o","u","t">>, "AboutPage">>, <<<<"c","o","n","t","a","c","t">>, "ContactPage">>, <<<<"b","l","o","g">>, "BlogList">> >>
\* a pathname "/x" of one segment x
singleSegment(pathname) ==
  /\ Len(pathname) >= 2 /\ pathname[1] = "/"
  /\ \A k \in 2..Len(pathname) : pathname[k] # "/"
\* the segments of the pathname that are not empty
namesOf(pathname) == SelectSeq(split(pathname, "/"), LAMBDA s : s # <<>>)

\* C13 as the specification states it: /, /about, /contact and /blog resolve to
\* their pages, and every other pathname /x of one segment resolves to BlogPost
\* with slug = x.  It does not for /About, which differs from /about and still
\* resolves to AboutPage, nor for /a%20b, whose slug is "a b".
C13_RouteResolution ==
  /\ address = <<"/">> => routed.element = "HomePage"
  /\ \A k \in 1..Len(StaticPages) :
       address = <<"/">> \o StaticPages[k][1] => routed.element = StaticPages[k][2]
  /\ (/\ singleSegment(address)
      /\ \A k \in 1..Len(StaticPages) : address # <<"/">> \o StaticPages[k][1])
       => routed = [element |-> "BlogPost", slug |-> Tail(address)]

\* C13, amended: a pathname without a segment resolves to HomePage; one of a
\* single segment resolves to AboutPage, ContactPage or BlogList when the segment
\* is about, contact or blog in any letter case, and otherwise to BlogPost with
\* the decoded segment as slug; slashes at the end do not count; a pathname of
\* more segments resolves to NotFoundPage.
C13_RouteResolutionAnyCase ==
  LET names == namesOf(address)
      static == {k \in 1..Len(StaticPages) :
                   Len(names) = 1 /\ toLowerCase(names[1]) = StaticPages[k][1]}
  IN  IF names = <<>> THEN routed = [element |-> "HomePage", slug |-> Undefined]
      ELSE IF Len(names) > 1
      THEN routed = [element |-> "NotFoundPage", slug |-> Undefined]
      ELSE IF static # {}
      THEN \A k \in static :
             routed = [element |-> StaticPages[k][2], slug |-> Undefined]
      ELSE routed = [element |-> "BlogPost", slug |-> decodeURIComponent(names[1])]

\* /About has been opened and the static route has won over the slug route
C13_Witness ==
  /\ address = <<"/","A","b","o","u","t">>
  /\ routed = [element |-> "AboutPage", slug |-> Undefined]

(***************************************************************************)
(* Properties of the sitemap script (SpecSitemap)                          *)
(***************************************************************************)
\* the files of the directory with the name
filesNamed(dir, name) == {f \in dir : f.name = name}
\* the URLs of the file sitemap-<counter>.xml of the directory
chunkUrls(dir, counter) ==
  (CHOOSE f \in dir : f.name = chunkFileName(counter)).content.items

\* Whether the files written are what the claim says for the markdown files
splitAsClaimed(files, xml, dir) ==
  LET allUrls == baseUrls \o blogUrls(files)
      count == Len(xml.items)
  IN  IF Len(allUrls) > MAX_URLS_PER_SITEMAP
      THEN /\ xml.root = "sitemapindex"
           /\ count >= 2
           /\ \A c \in 1..count :
                /\ Cardinality(filesNamed(dir, chunkFileName(c))) = 1
                /\ chunkUrls(dir, c) # <<>>
                /\ Len(chunkUrls(dir, c)) <= MAX_URLS_PER_SITEMAP
                /\ xml.items[c].loc = SiteUrl \o <<"/","s","i","t","e","m","a","p","s","/">> \o chunkFileName(c)
           /\ \A f \in dir : \E c \in 1..count : f.name = chunkFileName(c)
           /\ Concat([c \in 1..count |-> chunkUrls(dir, c)]) = allUrls
      ELSE xml = [root |-> "urlset", items |-> allUrls]

\* C14: a run of the script on markdown files that give more than 200 URLs
\* leaves the URLs, in their order, in the files sitemap-1.xml, sitemap-2.xml,
\* ... of at most 200 URLs each, every URL in one file, and sitemap.xml an index
\* that lists each of these files once and no other; a run on files that give
\* at most 200 URLs leaves all the URLs in sitemap.xml.
C14_SitemapSplit ==
  [][GenerateSitemap => splitAsClaimed(markdownFiles, sitemapXml', sitemapDir')]_vars

\* the script has run on 396 posts: 401 URLs in three files, one in the last
C14_Witness ==
  /\ Len(markdownFiles) = 396
  /\ sitemapXml.root = "sitemapindex"
  /\ Len(sitemapXml.items) = 3
  /\ Cardinality(sitemapDir) = 3
  /\ Len(chunkUrls(sitemapDir, 1)) = MAX_URLS_PER_SITEMAP
  /\ Len(chunkUrls(sitemapDir, 3)) = 1

(***************************************************************************)
(* Properties of getPostBySlug (Spec)                                      *)
(***************************************************************************)
\* BlogPost has the answer of getPostBySlug(slug)
postSettled == onBlogPost /\ request = "settled" /\ Truthy(location.slug)
\* Whether `found` is what the claim says getPostBySlug gives among allPosts
firstOfSlug(found, allPosts, slugParam) ==
  IF \A i \in 1..Len(allPosts) : allPosts[i].slug # slugParam
  THEN found = <<>>
  ELSE /\ Len(found) = 1
       /\ found[1].slug = slugParam
       /\ \E i \in 1..Len(allPosts) :
            /\ allPosts[i] = found[1]
            /\ \A j \in 1..(i - 1) : allPosts[j].slug # slugParam

\* C15: getPostBySlug(s) gives null exactly when no post of getAllPosts has the
\* slug s, and otherwise the first post of that slug in the order of getAllPosts.
C15_PostBySlug ==
  postSettled =>
    \E tick \in Ticks(Len(bundle)) :
      firstOfSlug(post, getAllPosts(bundle, clockOf(Len(bundle), tick), loadFails),
                  location.slug)

\* a post has been found for a slug that several posts have, and it is not the
\* last of them
C15_Witness ==
  /\ postSettled /\ post # <<>>
  /\ location.slug = <<"a","l","p","h","a">>
  /\ \E tick \in Ticks(Len(bundle)) :
       LET allPosts == getAllPosts(bundle, clockOf(Len(bundle), tick), loadFails)
       IN  \E i, j \in 1..Len(allPosts) :
             /\ i < j /\ allPosts[i] = post[1]
             /\ allPosts[j].slug = location.slug /\ allPosts[j] # post[1]

(***************************************************************************)
(* Properties of the order of the posts (SpecPosts)                        *)
(***************************************************************************)
\* Whether the date of post a is older than the date of post b, for two dates
\* that are dates
olderThan(a, b) ==
  LET ta == getTime(a.date)
      tb == getTime(b.date)
  IN  /\ ta # NaN /\ tb # NaN
      /\ (ta[1] < tb[1] \/ (ta[1] = tb[1] /\ ta[2] < tb[2]))
\* Whether the posts are newest first and the preview holds the most recent
newestFirst(ordered) ==
  /\ \A i \in 1..(Len(ordered) - 1) : ~olderThan(ordered[i], ordered[i + 1])
  /\ previewPosts(ordered) = SubSeq(ordered, 1, Min({PreviewCount, Len(ordered)}))
  /\ \A i \in 1..Len(previewPosts(ordered)) :
       \A j \in (Len(previewPosts(ordered)) + 1)..Len(ordered) :
         ~olderThan(ordered[i], ordered[j])

postsIn(shown) == {shown[k] : k \in 1..Len(shown)}

\* the slices of pages 1..upTo one after the other
RECURSIVE slicesJoined(_, _)
slicesJoined(filtered, upTo) ==
  IF upTo = 0 THEN <<>>
  ELSE slicesJoined(filtered, upTo - 1) \o currentPostsOf(filtered, upTo)

slicesPartition(filtered) ==
  LET totalPages == totalPagesOf(Len(filtered))
  IN  /\ \A p \in 1..totalPages :
            /\ currentPostsOf(filtered, p) # <<>>
            /\ Len(currentPostsOf(filtered, p)) <= PostsPerPage
      /\ \A p1, p2 \in 1..totalPages :
            p1 # p2 => postsIn(currentPostsOf(filtered, p1))
                         \cap postsIn(currentPostsOf(filtered, p2)) = {}
      /\ slicesJoined(filtered, totalPages) = filtered

\* C17: for a filtered list of n > 0 posts, the slices of pages 1..ceil(n /
\* postsPerPage) are each non-empty, hold at most postsPerPage posts, are
\* pairwise disjoint, and joined in page order are the filtered list
C17_SlicesPartition ==
  (onBlogList /\ Len(filteredPosts) > 0) => slicesPartition(filteredPosts)

\* a search result of three pages, the last of one post, shown at its last page
C17_Witness ==
  /\ listSettled
  /\ Len(filteredPosts) = 2 * PostsPerPage + 1
  /\ currentPage = 3
  /\ Len(currentPostsOf(filteredPosts, currentPage)) = 1

(***************************************************************************)
(* C18: currentPage follows the ?page= of the URL                          *)
(***************************************************************************)
\* the digits that `param` starts with
leadingDigits(param) ==
  LET stops == {k \in 1..Len(param) : param[k] \notin Digit}
  IN  IF stops = {} THEN param
      ELSE SubSeq(param, 1, (CHOOSE k \in stops : \A j \in stops : k <= j) - 1)

\* the ?page= value reads as a positive integer: digits, not all "0", and
\* possibly other characters after them
positivePage(param) ==
  /\ param \notin {Null, Undefined}
  /\ leadingDigits(param) # <<>>
  /\ \E k \in 1..Len(leadingDigits(param)) : leadingDigits(param)[k] # "0"

\* C18: once the page-parameter effect has run, currentPage is the ?page= value
\* when that parses to a positive integer, and 1 when the parameter is absent,
\* not a number, zero or negative; so it is after every change of the parameter
C18_PageFromUrl ==
  (onBlogList /\ effects = {}) =>
     IF positivePage(location.page)
     THEN toString(currentPage) = leadingDigits(location.page)
     ELSE currentPage = 1

\* the list opened with ?page=-2 stands at page 1
C18_Witness ==
  /\ onBlogList /\ effects = {}
  /\ location.page = <<"-", "2">>
  /\ currentPage = 1

\* a page link has set the parameter to "1", which no URL of Init has, and
\* currentPage is 1: C18 covers a change of the parameter
C18_WitnessChange ==
  /\ onBlogList /\ effects = {} /\ request = "settled"
  /\ location.page = <<"1">>
  /\ currentPage = 1

(***************************************************************************)
(* C19: handlePageChange keeps the search, the posts and the result        *)
(***************************************************************************)
\* what the claim says of a step from the unprimed to the primed state
pageChanged ==
  /\ \E p \in pageLinks(currentPage, totalPagesOf(Len(filteredPosts))) :
       /\ currentPage' = p
       /\ location'.page = toString(p)
  /\ location'.search = location.search
  /\ location'.pathname = location.pathname
  /\ posts' = posts
  /\ filteredPosts' = filteredPosts

\* C19: handlePageChange(p) sets currentPage to p and the URL 'page' parameter to
\* p and leaves the 'search' parameter, the loaded posts and the filtered result
\* as they are
C19_PageChangeKeepsSearch == [][HandlePageChange => pageChanged]_vars

\* page 2 of the results of the search "red" has just been asked for by a page
\* link: the state and the URL have the page, the page effect is still to run
C19_Witness ==
  /\ onBlogList /\ request = "settled" /\ effects = {"page"}
  /\ location.search = <<"r","e","d">>
  /\ location.page = <<"2">> /\ currentPage = 2
  /\ Len(filteredPosts) > PostsPerPage
  /\ Len(filteredPosts) < Len(posts)

(***************************************************************************)
(* C20: SearchBar.handleSubmit                                             *)
(***************************************************************************)
\* what the claim says of a submit of `query`, from the unprimed to the primed
\* state
submitted(query) ==
  IF trim(query) = <<>>
  THEN location' = location
  ELSE /\ location'.pathname = BlogRoute
       /\ location'.search = trim(query)
       /\ location'.page = Null
       /\ (currentPage' = 1 \/ "page" \in effects')
       /\ pageFromParam(location'.page) = 1

\* C20: handleSubmit navigates if and only if the trimmed query is not empty; it
\* navigates to the blog route with search = the trimmed query and no page
\* parameter, so that BlogList is at page 1; a blank query leaves the URL as it is
C20_SubmitSearch ==
  [][\A query \in SubmitQueries :
       (onBlogList /\ effects = {} /\ handleSubmit(query)) => submitted(query)]_vars

\* the list after the search "a+b c" was submitted from a URL with a page: the
\* URL has the search as typed and no page, and the list stands at page 1
C20_Witness ==
  /\ location.pathname = BlogRoute
  /\ location.search = <<"a","+","b"," ","c">>
  /\ location.page = Null
  /\ currentPage = 1
  /\ request = "settled" /\ effects = {}

(***************************************************************************)
(* SpecPagination: Pagination rendered with a current page and a number of *)
(* pages                                                                   *)
(***************************************************************************)
\* the most pages, and the highest current page, that Pagination is given
MaxTotalPages == 12

InitPagination ==
  /\ bundle = <<>> /\ loadFails = FALSE
  /\ NoSlugCall /\ NoPostsCall /\ NoPage /\ NoVisit /\ NoWidgets /\ NoSitemapRun

\* <Pagination currentPage totalPages ...>: nothing when totalPages <= 1, else
\* the entries of getPageNumbers() and the links that call onPageChange
RenderPagination ==
  /\ \E page \in 1..MaxTotalPages, total \in 0..MaxTotalPages :
       pagination' =
         [currentPage |-> page, totalPages |-> total,
          pageNumbers |-> IF total <= 1 THEN <<>> ELSE getPageNumbers(page, total),
          links |-> pageLinks(page, total)]
  /\ UNCHANGED <<slugVars, bundle, loadFails, postsVars, location, listVars,
                 postVars, effects, request, routerVars, sitemapVars, related>>

NextPagination == RenderPagination

SpecPagination == InitPagination /\ [][NextPagination]_vars

(***************************************************************************)
(* C21: the page numbers that Pagination shows                             *)
(***************************************************************************)
\* the positions of `pageNumbers` that hold a page number, not an ellipsis
numberedAt(pageNumbers) == {k \in 1..Len(pageNumbers) : pageNumbers[k] >= 0}

\* strictly increasing, hence without duplicates
pagesIncreasing(pageNumbers) ==
  \A i, j \in numberedAt(pageNumbers) : i < j => pageNumbers[i] < pageNumbers[j]

\* the first, the last and the current page are listed
pagesIncluded(pageNumbers, page, total) ==
  {1, total, page} \subseteq {pageNumbers[k] : k \in numberedAt(pageNumbers)}

\* at most maxPagesToShow numbers
pagesAtMost(pageNumbers) == Cardinality(numberedAt(pageNumbers)) <= MaxPagesToShow

\* an ellipsis stands between two numbers listed one after the other exactly
\* when a page between them is left out
ellipsesWhereOmitted(pageNumbers) ==
  /\ pageNumbers # <<>> => (1 \in numberedAt(pageNumbers)
                             /\ Len(pageNumbers) \in numberedAt(pageNumbers))
  /\ \A i \in numberedAt(pageNumbers) :
       i < Len(pageNumbers) =>
         IF i + 1 \in numberedAt(pageNumbers)
         THEN pageNumbers[i + 1] = pageNumbers[i] + 1
         ELSE /\ i + 2 \in numberedAt(pageNumbers)
              /\ pageNumbers[i + 2] > pageNumbers[i] + 1

\* C21: for totalPages > 1 and currentPage in 1..totalPages the page numbers of
\* getPageNumbers are strictly increasing, include 1, totalPages and
\* currentPage, are at most 5, and have an ellipsis between two of them exactly
\* when a page between them is left out
C21_PageNumbers ==
  (pagination.totalPages > 1 /\ pagination.currentPage \in 1..pagination.totalPages) =>
     /\ pagesIncreasing(pagination.pageNumbers)
     /\ pagesIncluded(pagination.pageNumbers, pagination.currentPage,
                      pagination.totalPages)
     /\ pagesAtMost(pagination.pageNumbers)
     /\ ellipsesWhereOmitted(pagination.pageNumbers)

\* what does hold of C21: everything but the number of pages listed
C21_AllButTheCount ==
  (pagination.totalPages > 1 /\ pagination.currentPage \in 1..pagination.totalPages) =>
     /\ pagesIncreasing(pagination.pageNumbers)
     /\ pagesIncluded(pagination.pageNumbers, pagination.currentPage,
                      pagination.totalPages)
     /\ Cardinality(numberedAt(pagination.pageNumbers)) <= MaxPagesToShow + 1
     /\ ellipsesWhereOmitted(pagination.pageNumbers)

(***************************************************************************)
(* C22: the pages that Pagination passes to onPageChange                   *)
(***************************************************************************)
\* C22: every page that Pagination passes to onPageChange through Previous, Next
\* or a numbered link lies in 1..totalPages, whatever currentPage BlogList
\* supplies, a page taken from ?page= included
C22_PageLinksInRange ==
  [][HandlePageChange => currentPage' \in 1..totalPagesOf(Len(filteredPosts))]_vars

\* what does hold of C22: the pages passed are in range when the current page is
C22_PageLinksInRangeFromInRange ==
  [][(HandlePageChange /\ currentPage \in 1..totalPagesOf(Len(filteredPosts)))
       => currentPage' \in 1..totalPagesOf(Len(filteredPosts))]_vars

(***************************************************************************)
(* RelatedBlogPosts                                                        *)
(***************************************************************************)
\* the count that the load effect passes to getRandomPosts
RelatedCount == 3

\* a filter that keeps every post
otherPostsUnfiltered(allPosts, currentPostSlug) == allPosts
\* posts.filter(post => post.slug !== currentPostSlug)
otherPostsOf(allPosts, currentPostSlug) ==
  LET other(p) == p.slug # currentPostSlug
  IN  SelectSeq(allPosts, other)

\* getRandomPosts(posts, count): [...posts].sort(() => 0.5 - Math.random()), whose
\* order is any order of the posts, then slice(0, Math.min(count, posts.length));
\* the set of what it can return
getRandomPosts(somePosts, count) ==
  {slice([k \in 1..Len(somePosts) |-> somePosts[p[k]]] \o <<>>, 0,
         Min({count, Len(somePosts)})) :
     p \in Permutations(1..Len(somePosts))}

\* the most content files of SpecRelated
MaxRelatedFiles == 5

(***************************************************************************)
(* SpecRelated: RelatedBlogPosts mounted under a post                      *)
(***************************************************************************)
InitRelated ==
  /\ bundle \in {bundleOf(n) : n \in 0..MaxRelatedFiles}
  /\ loadFails \in BOOLEAN
  /\ related \in {[currentPostSlug |-> s, relatedPosts |-> <<>>, loading |-> TRUE] :
                    s \in SlugParams \ {Undefined}}
  /\ pagination = NoPagination
  /\ NoSlugCall /\ NoPostsCall /\ NoPage /\ NoVisit /\ NoSitemapRun

\* The promise of getAllPosts() settles in RelatedBlogPosts: .then
RelatedFetchSettle ==
  /\ related.loading
  /\ \E tick \in Ticks(Len(bundle)) :
       LET allPosts == getAllPostsSettled(bundle, clockOf(Len(bundle), tick),
                                          loadFails).value
           otherPosts == otherPostsOf(allPosts, related.currentPostSlug)
       IN  \E randomPosts \in getRandomPosts(otherPosts, RelatedCount) :
             related' = [related EXCEPT !.relatedPosts = randomPosts,
                                        !.loading = FALSE]
  /\ UNCHANGED <<slugVars, bundle, loadFails, postsVars, location, listVars,
                 postVars, effects, request, routerVars, sitemapVars, pagination>>

\* A click on a related post: the pathname changes, BlogPost is mounted anew and
\* with it RelatedBlogPosts, now under the post that was clicked
OpenRelatedPost ==
  /\ ~related.loading
  /\ \E k \in 1..Len(related.relatedPosts) :
       related' = [currentPostSlug |-> related.relatedPosts[k].slug,
                   relatedPosts |-> <<>>, loading |-> TRUE]
  /\ UNCHANGED <<slugVars, bundle, loadFails, postsVars, location, listVars,
                 postVars, effects, request, routerVars, sitemapVars, pagination>>

NextRelated == RelatedFetchSettle \/ OpenRelatedPost

SpecRelated == InitRelated /\ [][NextRelated]_vars

(***************************************************************************)
(* C23: RelatedBlogPosts never shows the current post                      *)
(***************************************************************************)
\* the posts of one load of which `shown` are `count` different ones, none of
\* the slug
relatedAsClaimed(shown, allPosts, currentPostSlug) ==
  LET others == {i \in 1..Len(allPosts) : allPosts[i].slug # currentPostSlug}
  IN  /\ Len(shown) = Min({RelatedCount, Cardinality(others)})
      /\ \A j, k \in 1..Len(shown) : j # k => shown[j] # shown[k]
      /\ \A k \in 1..Len(shown) :
            /\ \E i \in 1..Len(allPosts) : allPosts[i] = shown[k]
            /\ shown[k].slug # currentPostSlug

\* C23: the related posts are min(3, number of other posts) pairwise distinct
\* posts of the loaded posts, none of which has the slug currentPostSlug
C23_RelatedPosts ==
  ~related.loading =>
     \E tick \in Ticks(Len(bundle)) :
        relatedAsClaimed(related.relatedPosts,
                         getAllPostsSettled(bundle, clockOf(Len(bundle), tick),
                                            loadFails).value,
                         related.currentPostSlug)

\* under the post alpha of five posts, of which two have the slug alpha, the
\* three posts of another slug are shown
C23_Witness ==
  /\ ~related.loading /\ ~loadFails
  /\ Len(bundle) = MaxRelatedFiles
  /\ related.currentPostSlug = <<"a","l","p","h","a">>
  /\ Len(related.relatedPosts) = RelatedCount

(***************************************************************************)
(* C24: BlogList leaves the loading state once and for all                 *)
(***************************************************************************)
\* The mounted component is replaced by the step: the pathname changes, and
\* <Routes key={location.pathname}> mounts a component anew
remounts == location'.pathname # location.pathname
\* BlogList is mounted by the step
listMounts == remounts /\ onBlogList'

\* C24: BlogList starts with loading true, loading becomes false eventually and
\* is not true again in the mounted component, and while loading is true none of
\* the list, the empty view and the error is rendered
C24_LoadingEnds ==
  /\ (onBlogList => loading)
  /\ [][listMounts => loading']_vars
  /\ ((onBlogList /\ loading) ~> (onBlogList /\ ~loading))
  /\ [][(onBlogList /\ ~loading /\ loading') => remounts]_vars
  /\ [](onBlogList /\ loading =>
          listView(loading, error, filteredPosts) \notin {"list", "empty", "error"})

\* the list after the load, and after a search from /blog has mounted it anew
\* and that load has ended too
C24_Witness ==
  /\ location.pathname = BlogRoute /\ ~loading /\ request = "settled"
  /\ effects = {} /\ posts # <<>>

(***************************************************************************)
(* C25: a post is opened through the link that BlogList renders for it     *)
(***************************************************************************)
\* <Link to={`/${post.slug}/`}>
postLinkOf(p) == <<"/">> \o p.slug \o <<"/">>

\* the link of the post resolves to BlogPost, and what BlogPost loads for the
\* slug of the route is the post
opensPost(p, allPosts) ==
  LET route == matchRoutes(postLinkOf(p))
  IN  /\ route.element = "BlogPost"
      /\ getPostBySlug(allPosts, route.slug) = <<p>>

\* C25: every post that getAllPosts returns is opened through the link BlogList
\* renders for it: /<post.slug>/ resolves to BlogPost showing that post, so the
\* slugs of the posts differ, are not empty and are none of about, contact, blog
C25_PostLinkOpensPost ==
  called => \A i \in 1..Len(fetched) : opensPost(fetched[i], fetched)

(***************************************************************************)
(* C26: the base URLs of the sitemap in the router                         *)
(***************************************************************************)
\* the pathname of a URL of the site
pathnameOf(loc) == SubSeq(loc, Len(SiteUrl) + 1, Len(loc))

\* C26: each base URL that generateSitemap writes (/, /blog, /about, /contact,
\* /sitemap) resolves in the router to a page of its own: not to BlogPost, which
\* has no post for it, and not to NotFoundPage
C26_BaseUrlsResolve ==
  \A k \in 1..Len(baseUrls) :
     address = pathnameOf(baseUrls[k].loc)
       => routed.element \notin {"BlogPost", "NotFoundPage"}

\* what does hold of C26: the base URLs other than /sitemap resolve to HomePage,
\* BlogList, AboutPage and ContactPage
C26_BaseUrlsButSitemapResolve ==
  \A k \in 1..Len(baseUrls) :
     (address = pathnameOf(baseUrls[k].loc)
      /\ address # <<"/","s","i","t","e","m","a","p">>)
       => routed.element \in {"HomePage", "BlogList", "AboutPage", "ContactPage"}

(***************************************************************************)
(* C27: a markdown file that cannot be read                                *)
(***************************************************************************)
\* the URLs that the files written hold: those of sitemap.xml, or those of the
\* files that the index lists, in its order
writtenUrls(xml, dir) ==
  IF xml.root = "urlset" THEN xml.items
  ELSE Concat([c \in 1..Len(xml.items) |-> chunkUrls(dir, c)])

\* Whether the URLs written are the base URLs and one URL for each file that
\* could be read, and robots.txt has its two lines
onlyFailedOmitted(files, xml, dir, robots) ==
  LET written == writtenUrls(xml, dir)
      readable == {k \in 1..Len(files) : ~files[k].unreadable}
  IN  /\ Len(written) = Len(baseUrls) + Cardinality(readable)
      /\ \A k \in 1..Len(baseUrls) : written[k] = baseUrls[k]
      /\ \A k \in readable :
            \E j \in 1..Len(written) :
               /\ written[j].loc = SiteUrl \o <<"/","p">>
                                     \o toString(k)
               /\ written[j].priority = <<"0",".","7">>
      /\ \E i \in 1..Len(robots) : robots[i] = <<"A","l","l","o","w",":"," ","/">>
      /\ \E i \in 1..Len(robots) :
            robots[i] = <<"S","i","t","e","m","a","p",":"," ">> \o SiteUrl \o <<"/","s","i","t","e","m","a","p",".","x","m","l">>

\* C27: a run of the script in which a markdown file cannot be read leaves out
\* the URL of that file only: the base URLs and the URLs of the other posts are
\* written, and robots.txt is written with "Allow: /" and a Sitemap line for
\* <siteUrl>/sitemap.xml
C27_FailedFileOmitted ==
  [][(GenerateSitemap /\ \E k \in 1..Len(markdownFiles) : markdownFiles[k].unreadable)
       => onlyFailedOmitted(markdownFiles, sitemapXml', sitemapDir', robotsTxt')]_vars

\* the script has run on 396 posts of which the second cannot be read: 400 URLs
\* in two files, the second post in none, and robots.txt written
C27_Witness ==
  /\ Len(markdownFiles) = 396 /\ markdownFiles[2].unreadable
  /\ sitemapXml.root = "sitemapindex" /\ Len(sitemapXml.items) = 2
  /\ Len(writtenUrls(sitemapXml, sitemapDir)) = 2 * MAX_URLS_PER_SITEMAP
  /\ writtenUrls(sitemapXml, sitemapDir)[Len(baseUrls) + 2].loc = SiteUrl \o <<"/","p","3">>
  /\ Len(robotsTxt) > 1

====
